---------------------------- MODULE Spec2Model ----------------------------
(***************************************************************************)
(* A model of the statement normalisation and categorisation pipeline of   *)
(* the finance backend: the rule-based categorizers, the date normaliser,  *)
(* the transaction builder of process_excel_file and the AI categorisation *)
(* batcher (src/excel_processor.py, src/pdf_processor.py).                 *)
(*                                                                         *)
(* Python strings are modelled as sequences of one-character strings, so   *)
(* that substring tests, lower(), strip() and split() are computed the way *)
(* the interpreter computes them.                                          *)
(***************************************************************************)
EXTENDS Integers, Sequences, FiniteSets, TLC

-----------------------------------------------------------------------------
(* Strings                                                                 *)

\* str.lower() on the characters the model uses
LowerTable ==
  ("A" :> "a") @@ ("B" :> "b") @@ ("C" :> "c") @@ ("D" :> "d") @@ ("E" :> "e") @@
  ("F" :> "f") @@ ("G" :> "g") @@ ("H" :> "h") @@ ("I" :> "i") @@ ("J" :> "j") @@
  ("K" :> "k") @@ ("L" :> "l") @@ ("M" :> "m") @@ ("N" :> "n") @@ ("O" :> "o") @@
  ("P" :> "p") @@ ("Q" :> "q") @@ ("R" :> "r") @@ ("S" :> "s") @@ ("T" :> "t") @@
  ("U" :> "u") @@ ("V" :> "v") @@ ("W" :> "w") @@ ("X" :> "x") @@ ("Y" :> "y") @@
  ("Z" :> "z")

lower(s) == [i \in 1..Len(s) |-> IF s[i] \in DOMAIN LowerTable THEN LowerTable[s[i]] ELSE s[i]]

\* the text in lower case
Lowered(text) == SubSeq(lower(text), 1, Len(text))

\* str.upper() on the characters the model uses
UpperTable ==
  ("a" :> "A") @@ ("b" :> "B") @@ ("c" :> "C") @@ ("d" :> "D") @@ ("e" :> "E") @@
  ("f" :> "F") @@ ("g" :> "G") @@ ("h" :> "H") @@ ("i" :> "I") @@ ("j" :> "J") @@
  ("k" :> "K") @@ ("l" :> "L") @@ ("m" :> "M") @@ ("n" :> "N") @@ ("o" :> "O") @@
  ("p" :> "P") @@ ("q" :> "Q") @@ ("r" :> "R") @@ ("s" :> "S") @@ ("t" :> "T") @@
  ("u" :> "U") @@ ("v" :> "V") @@ ("w" :> "W") @@ ("x" :> "X") @@ ("y" :> "Y") @@
  ("z" :> "Z")

upper(s) == [i \in 1..Len(s) |-> IF s[i] \in DOMAIN UpperTable THEN UpperTable[s[i]] ELSE s[i]]

\* str.strip(): leading and trailing blanks removed
RECURSIVE lstrip(_)
lstrip(s) == IF s # <<>> /\ Head(s) = " " THEN lstrip(Tail(s)) ELSE s

RECURSIVE rstrip(_)
rstrip(s) == IF s # <<>> /\ s[Len(s)] = " " THEN rstrip(SubSeq(s, 1, Len(s) - 1)) ELSE s

strip(s) == rstrip(lstrip(s))

\* Python's `k in s` on strings: k is a contiguous substring of s
Contains(s, k) ==
  \E i \in 0..(Len(s) - Len(k)) : \A j \in 1..Len(k) : s[i + j] = k[j]

\* any(term in s for term in terms)
AnyIn(terms, s) == \E i \in 1..Len(terms) : Contains(s, terms[i])

\* s.split(' ')[0]: the text before the first blank
RECURSIVE FirstWord(_)
FirstWord(s) ==
  IF s = <<>> \/ Head(s) = " " THEN <<>> ELSE <<Head(s)>> \o FirstWord(Tail(s))

-----------------------------------------------------------------------------
(* Category registries                                                     *)

\* The closed category set: the 13 labels of `categories` in ai_categorize_transactions.
FoodDining == <<"F","o","o","d"," ","&"," ","D","i","n","i","n","g">>
Transportation == <<"T","r","a","n","s","p","o","r","t","a","t","i","o","n">>
ShoppingRetail == <<"S","h","o","p","p","i","n","g"," ","&"," ","R","e","t","a","i","l">>
Healthcare == <<"H","e","a","l","t","h","c","a","r","e">>
UtilitiesBills == <<"U","t","i","l","i","t","i","e","s"," ","&"," ","B","i","l","l","s">>
Entertainment == <<"E","n","t","e","r","t","a","i","n","m","e","n","t">>
Subscriptions == <<"S","u","b","s","c","r","i","p","t","i","o","n","s"," ","&"," ","D","i","g","i","t","a","l"," ","S","e","r","v","i","c","e","s">>
AtmCash == <<"A","T","M"," ","&"," ","C","a","s","h"," ","W","i","t","h","d","r","a","w","a","l","s">>
BankingFinance == <<"B","a","n","k","i","n","g"," ","&"," ","F","i","n","a","n","c","e">>
PersonalCare == <<"P","e","r","s","o","n","a","l"," ","C","a","r","e">>
Travel == <<"T","r","a","v","e","l">>
Income == <<"I","n","c","o","m","e">>
OtherExpenses == <<"O","t","h","e","r"," ","E","x","p","e","n","s","e","s">>



\* The `categories` list of ai_categorize_transactions, as a set
CategorySet ==
  { FoodDining, Transportation, ShoppingRetail, Healthcare, UtilitiesBills,
    Entertainment, Subscriptions, AtmCash, BankingFinance, PersonalCare,
    Travel, Income, OtherExpenses }

\* "no category found yet" inside the categorizers (no label is empty)
NoCategory == <<>>

-----------------------------------------------------------------------------
(* Rule-based categorizer of the Excel processor                           *)

\* UAEBankExcelProcessor.categories: the keyword list of each category
Xls_categories(c) ==
  CASE c = FoodDining ->
      << <<"c","a","r","r","e","f","o","u","r">>, <<"l","u","l","u">>, <<"s","p","i","n","n","e","y","s">>,
         <<"c","h","o","i","t","h","r","a","m","s">>, <<"u","n","i","o","n"," ","c","o","o","p">>,
         <<"w","a","i","t","r","o","s","e">>, <<"r","e","s","t","a","u","r","a","n","t">>, <<"c","a","f","e">>,
         <<"k","f","c">>, <<"m","c","d","o","n","a","l","d">>, <<"p","i","z","z","a">>,
         <<"s","u","b","w","a","y">>, <<"d","o","m","i","n","o","s">>, <<"s","t","a","r","b","u","c","k","s">>,
         <<"c","o","s","t","a">>, <<"d","u","n","k","i","n">>, <<"b","u","r","g","e","r">>, <<"f","o","o","d">>,
         <<"d","i","n","i","n","g">>, <<"e","a","t">>, <<"g","r","o","c","e","r","y">>,
         <<"s","u","p","e","r","m","a","r","k","e","t">>, <<"h","y","p","e","r","m","a","r","k","e","t">>,
         <<"b","a","k","e","r","y">>, <<"d","e","l","i">>, <<"b","i","s","t","r","o">>,
         <<"c","a","t","e","r","i","n","g">>, <<"t","a","k","e","a","w","a","y">>,
         <<"d","e","l","i","v","e","r","y">>, <<"z","o","m","a","t","o">>, <<"t","a","l","a","b","a","t">>,
         <<"d","e","l","i","v","e","r","o","o">>, <<"d","o","o","r","d","a","s","h">>,
         <<"g","r","u","b","h","u","b">>, <<"u","b","e","r"," ","e","a","t","s">>,
         <<"p","o","s","t","m","a","t","e","s">>, <<"c","h","i","p","o","t","l","e">>, <<"p","a","n","e","r","a">>,
         <<"w","h","o","l","e"," ","f","o","o","d","s">>, <<"t","r","a","d","e","r"," ","j","o","e">>,
         <<"s","a","f","e","w","a","y">>, <<"k","r","o","g","e","r">>, <<"t","a","r","g","e","t">>,
         <<"w","a","l","m","a","r","t">>, <<"d","o","n","u","t","s">>, <<"c","o","f","f","e","e">>,
         <<"e","s","p","r","e","s","s","o">>, <<"b","a","c","i","o"," ","d","i"," ","l","a","t","t","e">>,
         <<"b","u","t","c","h","e","r","y">>, <<"z","i","n","q","u","e">>, <<"r","a","l","p","h","s">>,
         <<"a","l","b","e","r","t","s","o","n","s">>, <<"v","o","n","s">>, <<"p","a","v","i","l","i","o","n","s">>,
         <<"p","u","b","l","i","x">>, <<"w","e","g","m","a","n","s">>,
         <<"h","a","r","r","i","s"," ","t","e","e","t","e","r">> >>
    [] c = Transportation ->
      << <<"a","d","n","o","c">>, <<"e","p","p","c","o">>, <<"e","n","o","c">>, <<"p","e","t","r","o","l">>,
         <<"f","u","e","l">>, <<"g","a","s">>, <<"g","a","s","o","l","i","n","e">>, <<"t","a","x","i">>,
         <<"u","b","e","r">>, <<"c","a","r","e","e","m">>, <<"m","e","t","r","o">>, <<"b","u","s">>,
         <<"r","t","a">>, <<"p","a","r","k","i","n","g">>, <<"s","a","l","i","k">>, <<"t","o","l","l">>,
         <<"c","a","r"," ","w","a","s","h">>, <<"t","r","a","n","s","p","o","r","t">>,
         <<"e","m","i","r","a","t","e","s">>, <<"e","t","i","h","a","d">>, <<"f","l","y","d","u","b","a","i">>,
         <<"a","i","r"," ","a","r","a","b","i","a">>, <<"a","i","r","l","i","n","e">>, <<"f","l","i","g","h","t">>,
         <<"a","i","r","p","o","r","t">>, <<"c","h","e","v","r","o","n">>, <<"s","h","e","l","l">>, <<"b","p">>,
         <<"7","6">>, <<"e","x","x","o","n">>, <<"m","o","b","i","l">>, <<"l","y","f","t">>,
         <<"p","a","r","k","i","n","g"," ","s","e","r","v","i","c","e","s">>,
         <<"t","o","l","l"," ","r","o","a","d","s">>, <<"v","a","l","e","t">> >>
    [] c = ShoppingRetail ->
      << <<"m","a","l","l">>, <<"c","e","n","t","r","e","p","o","i","n","t">>, <<"m","a","x">>,
         <<"h","o","m","e"," ","c","e","n","t","r","e">>, <<"i","k","e","a">>, <<"a","c","e">>,
         <<"s","h","a","r","a","f"," ","d","g">>, <<"j","u","m","b","o">>,
         <<"e","l","e","c","t","r","o","n","i","c","s">>, <<"c","l","o","t","h","i","n","g">>,
         <<"f","a","s","h","i","o","n">>, <<"s","h","o","p">>, <<"s","t","o","r","e">>,
         <<"r","e","t","a","i","l">>, <<"a","m","a","z","o","n">>, <<"n","o","o","n">>, <<"s","o","u","q">>,
         <<"n","a","m","s","h","i">>, <<"h","&","m">>, <<"z","a","r","a">>, <<"n","i","k","e">>,
         <<"a","d","i","d","a","s">>, <<"a","p","p","l","e">>, <<"s","a","m","s","u","n","g">>,
         <<"v","i","r","g","i","n">>, <<"u","n","i","q","l","o">>, <<"t","a","r","g","e","t">>,
         <<"w","a","l","m","a","r","t">>, <<"c","o","s","t","c","o">>, <<"b","e","s","t"," ","b","u","y">>,
         <<"m","a","c","y">>, <<"n","o","r","d","s","t","r","o","m">>, <<"k","o","h","l","s">>,
         <<"t","j"," ","m","a","x","x">>, <<"r","o","s","s">>, <<"m","a","r","s","h","a","l","l","s">> >>
    [] c = Healthcare ->
      << <<"h","o","s","p","i","t","a","l">>, <<"c","l","i","n","i","c">>, <<"p","h","a","r","m","a","c","y">>,
         <<"m","e","d","i","c","a","l">>, <<"d","o","c","t","o","r">>, <<"h","e","a","l","t","h">>,
         <<"d","e","n","t","a","l">>, <<"m","e","d","i","c","a","r","e">>, <<"a","s","t","e","r">>,
         <<"n","m","c">>, <<"m","e","d","i","c","l","i","n","i","c">>,
         <<"l","i","f","e"," ","p","h","a","r","m","a","c","y">>, <<"b","o","o","t","s">>,
         <<"a","s","t","e","r"," ","p","h","a","r","m","a","c","y">>,
         <<"d","a","y"," ","t","o","d","a","y"," ","p","h","a","r","m","a","c","y">> >>
    [] c = UtilitiesBills ->
      << <<"d","e","w","a">>, <<"a","d","d","c">>, <<"s","e","w","a">>, <<"f","e","w","a">>,
         <<"e","t","i","s","a","l","a","t">>, <<"d","u">>, <<"i","n","t","e","r","n","e","t">>,
         <<"m","o","b","i","l","e">>, <<"t","e","l","e","c","o","m">>,
         <<"e","l","e","c","t","r","i","c","i","t","y">>, <<"w","a","t","e","r">>, <<"g","a","s">>,
         <<"u","t","i","l","i","t","y">>, <<"b","i","l","l">>, <<"w","i","f","i">>,
         <<"b","r","o","a","d","b","a","n","d">>, <<"p","h","o","n","e"," ","b","i","l","l">>,
         <<"e","l","e","c","t","r","i","c"," ","b","i","l","l">> >>
    [] c = Entertainment ->
      << <<"c","i","n","e","m","a">>, <<"m","o","v","i","e">>, <<"v","o","x">>, <<"r","e","e","l">>,
         <<"n","e","t","f","l","i","x">>, <<"o","s","n">>, <<"g","a","m","i","n","g">>,
         <<"e","n","t","e","r","t","a","i","n","m","e","n","t">>, <<"p","a","r","k">>, <<"b","e","a","c","h">>,
         <<"a","t","t","r","a","c","t","i","o","n">>, <<"t","i","c","k","e","t">>, <<"e","v","e","n","t">>,
         <<"s","p","o","t","i","f","y">>, <<"y","o","u","t","u","b","e">>, <<"d","i","s","n","e","y">>,
         <<"a","m","a","z","o","n"," ","p","r","i","m","e">>, <<"h","u","l","u">>, <<"s","h","a","h","i","d">>,
         <<"d","i","s","n","e","y","l","a","n","d">>, <<"b","a","l","l","o","o","n"," ","m","u","s","e","u","m">>,
         <<"s","a","w","d","u","s","t"," ","f","e","s","t","i","v","a","l">>, <<"m","u","s","e","u","m">>,
         <<"a","m","u","s","e","m","e","n","t">> >>
    [] c = Subscriptions ->
      << <<"n","e","t","f","l","i","x">>, <<"s","p","o","t","i","f","y">>,
         <<"y","o","u","t","u","b","e"," ","p","r","e","m","i","u","m">>,
         <<"a","m","a","z","o","n"," ","p","r","i","m","e">>, <<"d","i","s","n","e","y","+">>,
         <<"a","d","o","b","e">>, <<"m","i","c","r","o","s","o","f","t">>, <<"g","o","o","g","l","e">>,
         <<"i","c","l","o","u","d">>, <<"d","r","o","p","b","o","x">>, <<"z","o","o","m">>,
         <<"s","u","b","s","c","r","i","p","t","i","o","n">>, <<"m","o","n","t","h","l","y">>,
         <<"a","n","n","u","a","l">>, <<"r","e","c","u","r","r","i","n","g">>, <<"s","a","a","s">>,
         <<"s","o","f","t","w","a","r","e">>, <<"a","p","p"," ","s","t","o","r","e">>,
         <<"p","l","a","y"," ","s","t","o","r","e">>, <<"i","t","u","n","e","s">>,
         <<"o","f","f","i","c","e"," ","3","6","5">> >>
    [] c = AtmCash ->
      << <<"a","t","m">>, <<"c","a","s","h"," ","w","i","t","h","d","r","a","w","a","l">>,
         <<"w","i","t","h","d","r","a","w","a","l">>, <<"a","t","m"," ","w","i","t","h","d","r","a","w","a","l">>,
         <<"c","a","s","h"," ","a","d","v","a","n","c","e">>, <<"a","t","m"," ","f","e","e">>,
         <<"w","i","t","h","d","r","a","w","a","l"," ","f","e","e">> >>
    [] c = BankingFinance ->
      << <<"t","r","a","n","s","f","e","r">>, <<"f","e","e">>, <<"c","h","a","r","g","e">>,
         <<"f","i","n","a","n","c","e">>, <<"l","o","a","n">>, <<"i","n","t","e","r","e","s","t">>,
         <<"b","a","n","k"," ","f","e","e">>, <<"s","e","r","v","i","c","e"," ","c","h","a","r","g","e">>,
         <<"m","a","i","n","t","e","n","a","n","c","e"," ","f","e","e">>, <<"o","v","e","r","d","r","a","f","t">>,
         <<"w","i","r","e"," ","t","r","a","n","s","f","e","r">>, <<"r","e","m","i","t","t","a","n","c","e">>,
         <<"e","x","c","h","a","n","g","e">> >>
    [] c = PersonalCare ->
      << <<"s","a","l","o","n">>, <<"s","p","a">>, <<"b","a","r","b","e","r","s","h","o","p">>,
         <<"b","e","a","u","t","y">>, <<"c","o","s","m","e","t","i","c","s">>, <<"s","k","i","n","c","a","r","e">>,
         <<"h","a","i","r","c","u","t">>, <<"m","a","n","i","c","u","r","e">>, <<"p","e","d","i","c","u","r","e">>,
         <<"m","a","s","s","a","g","e">>, <<"g","y","m">>, <<"f","i","t","n","e","s","s">>,
         <<"2","4","h","o","u","r","f","i","t","n","e","s","s">>,
         <<"p","l","a","n","e","t"," ","f","i","t","n","e","s","s">>, <<"l","a"," ","f","i","t","n","e","s","s">>,
         <<"c","r","u","n","c","h">>, <<"e","q","u","i","n","o","x">>,
         <<"f","l","e","x"," ","f","i","t","n","e","s","s">>, <<"o","r","a","n","g","e","t","h","e","o","r","y">> >>

\* a priority list that leaves out Shopping & Retail
category_priority_without_shopping ==
  << AtmCash, Subscriptions, FoodDining, Transportation, Healthcare,
     UtilitiesBills, Entertainment, PersonalCare, BankingFinance >>

category_priority ==
  << AtmCash, Subscriptions, FoodDining, Transportation, Healthcare,
     UtilitiesBills, Entertainment, ShoppingRetail, PersonalCare, BankingFinance >>

\* the terms of the three guard clauses
Xls_atm_terms == << <<"a","t","m">>, <<"w","i","t","h","d","r","a","w","a","l">>, <<"c","a","s","h">> >>
Xls_subscription_terms ==
  << <<"s","u","b","s","c","r","i","p","t","i","o","n">>, <<"m","o","n","t","h","l","y">>, <<"n","e","t","f","l","i","x">>, <<"s","p","o","t","i","f","y">>, <<"p","r","i","m","e">> >> \o
  << <<"o","f","f","i","c","e">>, <<"a","d","o","b","e">>, <<"g","o","o","g","l","e">>, <<"m","i","c","r","o","s","o","f","t">>, <<"i","c","l","o","u","d">> >>
Xls_banking_terms == << <<"t","r","a","n","s","f","e","r">>, <<"f","e","e">>, <<"c","h","a","r","g","e">>, <<"i","n","t","e","r","e","s","t">>, <<"m","a","i","n","t","e","n","a","n","c","e">> >>

\* the broad word checks after the priority pass
Xls_transport_words == << <<"t","a","x","i">>, <<"u","b","e","r">>, <<"c","a","r","e","e","m">>, <<"r","t","a">> >>
Xls_food_words == << <<"r","e","s","t","a","u","r","a","n","t">>, <<"c","a","f","e">>, <<"f","o","o","d">>, <<"d","i","n","i","n","g">>, <<"e","a","t">> >>
Xls_shopping_words == << <<"m","a","l","l">>, <<"s","h","o","p">>, <<"s","t","o","r","e">>, <<"r","e","t","a","i","l">> >>

\* merchant literal -> category, in the order of the dict
merchant_patterns ==
  << << <<"C","A","R","E","E","M">>, Transportation >>,
     << <<"T","A","L","A","B","A","T">>, FoodDining >>,
     << <<"Z","O","M","A","T","O">>, FoodDining >>,
     << <<"N","E","T","F","L","I","X">>, Subscriptions >>,
     << <<"S","P","O","T","I","F","Y">>, Subscriptions >>,
     << <<"A","M","A","Z","O","N">>, ShoppingRetail >>,
     << <<"N","O","O","N">>, ShoppingRetail >>,
     << <<"A","D","N","O","C">>, Transportation >>,
     << <<"E","N","O","C">>, Transportation >>,
     << <<"E","P","P","C","O">>, Transportation >> >>

Xls_guard(category, desc_lower) ==
  IF category = AtmCash THEN AnyIn(Xls_atm_terms, desc_lower)
  ELSE IF category = Subscriptions THEN AnyIn(Xls_subscription_terms, desc_lower)
  ELSE IF category = BankingFinance THEN AnyIn(Xls_banking_terms, desc_lower)
  ELSE TRUE

\* a priority loop that gives up at the first category with a keyword in the
\* description when that category's guard fails
RECURSIVE Xls_priority_pass_stops(_, _)
Xls_priority_pass_stops(desc_lower, i) ==
  IF i > Len(category_priority) THEN NoCategory
  ELSE IF AnyIn(Xls_categories(category_priority[i]), desc_lower)
       THEN IF Xls_guard(category_priority[i], desc_lower) THEN category_priority[i] ELSE NoCategory
       ELSE Xls_priority_pass_stops(desc_lower, i + 1)

\* the loop over category_priority from position i on: the first category with
\* a keyword in the description and its guard satisfied, or NoCategory
RECURSIVE Xls_priority_pass(_, _)
Xls_priority_pass(desc_lower, i) ==
  IF i > Len(category_priority) THEN NoCategory
  ELSE IF /\ AnyIn(Xls_categories(category_priority[i]), desc_lower)
          /\ Xls_guard(category_priority[i], desc_lower)
       THEN category_priority[i]
       ELSE Xls_priority_pass(desc_lower, i + 1)

\* the loop over merchant_patterns from position i on
RECURSIVE Xls_merchant_pass(_, _)
Xls_merchant_pass(desc_lower, i) ==
  IF i > Len(merchant_patterns) THEN NoCategory
  ELSE IF Contains(desc_lower, lower(merchant_patterns[i][1]))
       THEN merchant_patterns[i][2]
       ELSE Xls_merchant_pass(desc_lower, i + 1)

\* a categorizer that falls back to the 'Other' label the analysis step uses
Xls_default_category_other == <<"O","t","h","e","r">>

Xls_default_category == OtherExpenses

Xls_categorize_transaction(text) ==
  LET desc_lower == strip(lower(text))
      byPriority == Xls_priority_pass(desc_lower, 1)
      byMerchant == Xls_merchant_pass(desc_lower, 1)
  IN  IF byPriority # NoCategory THEN byPriority
      ELSE IF AnyIn(Xls_transport_words, desc_lower) THEN Transportation
      ELSE IF AnyIn(Xls_food_words, desc_lower) THEN FoodDining
      ELSE IF AnyIn(Xls_shopping_words, desc_lower) THEN ShoppingRetail
      ELSE IF byMerchant # NoCategory THEN byMerchant
      ELSE Xls_default_category

-----------------------------------------------------------------------------
(* Rule-based categorizer of the PDF processor                             *)

\* BankStatementPDFProcessor.categories: the keyword list of each category
Pdf_categories(c) ==
  CASE c = FoodDining ->
      << <<"c","a","r","r","e","f","o","u","r">>, <<"l","u","l","u">>, <<"s","p","i","n","n","e","y","s">>,
         <<"c","h","o","i","t","h","r","a","m","s">>, <<"u","n","i","o","n"," ","c","o","o","p">>,
         <<"w","a","i","t","r","o","s","e">>, <<"r","e","s","t","a","u","r","a","n","t">>, <<"c","a","f","e">>,
         <<"k","f","c">>, <<"m","c","d","o","n","a","l","d">>, <<"p","i","z","z","a">>,
         <<"s","u","b","w","a","y">>, <<"d","o","m","i","n","o","s">>, <<"s","t","a","r","b","u","c","k","s">>,
         <<"c","o","s","t","a">>, <<"d","u","n","k","i","n">>, <<"b","u","r","g","e","r">>, <<"f","o","o","d">>,
         <<"d","i","n","i","n","g">>, <<"e","a","t">>, <<"g","r","o","c","e","r","y">>,
         <<"s","u","p","e","r","m","a","r","k","e","t">>, <<"h","y","p","e","r","m","a","r","k","e","t">>,
         <<"b","a","k","e","r","y">>, <<"d","e","l","i">>, <<"b","i","s","t","r","o">>,
         <<"c","a","t","e","r","i","n","g">>, <<"t","a","k","e","a","w","a","y">>,
         <<"d","e","l","i","v","e","r","y">>, <<"z","o","m","a","t","o">>, <<"t","a","l","a","b","a","t">>,
         <<"d","e","l","i","v","e","r","o","o">>, <<"d","o","o","r","d","a","s","h">>,
         <<"g","r","u","b","h","u","b">>, <<"u","b","e","r"," ","e","a","t","s">>,
         <<"p","o","s","t","m","a","t","e","s">>, <<"c","h","i","p","o","t","l","e">>, <<"p","a","n","e","r","a">>,
         <<"w","h","o","l","e"," ","f","o","o","d","s">>, <<"t","r","a","d","e","r"," ","j","o","e">>,
         <<"s","a","f","e","w","a","y">>, <<"k","r","o","g","e","r">>, <<"t","a","r","g","e","t">>,
         <<"w","a","l","m","a","r","t">>, <<"d","o","n","u","t","s">>, <<"c","o","f","f","e","e">>,
         <<"e","s","p","r","e","s","s","o">>, <<"b","a","c","i","o"," ","d","i"," ","l","a","t","t","e">>,
         <<"b","u","t","c","h","e","r","y">>, <<"z","i","n","q","u","e">>, <<"r","a","l","p","h","s">>,
         <<"a","l","b","e","r","t","s","o","n","s">>, <<"v","o","n","s">>, <<"p","a","v","i","l","i","o","n","s">>,
         <<"p","u","b","l","i","x">>, <<"w","e","g","m","a","n","s">> >>
    [] c = Transportation ->
      << <<"a","d","n","o","c">>, <<"e","p","p","c","o">>, <<"e","n","o","c">>, <<"p","e","t","r","o","l">>,
         <<"f","u","e","l">>, <<"g","a","s">>, <<"g","a","s","o","l","i","n","e">>, <<"t","a","x","i">>,
         <<"u","b","e","r">>, <<"c","a","r","e","e","m">>, <<"m","e","t","r","o">>, <<"b","u","s">>,
         <<"r","t","a">>, <<"p","a","r","k","i","n","g">>, <<"s","a","l","i","k">>, <<"t","o","l","l">>,
         <<"c","a","r"," ","w","a","s","h">>, <<"t","r","a","n","s","p","o","r","t">>,
         <<"e","m","i","r","a","t","e","s">>, <<"e","t","i","h","a","d">>, <<"f","l","y","d","u","b","a","i">>,
         <<"a","i","r"," ","a","r","a","b","i","a">>, <<"a","i","r","l","i","n","e">>, <<"f","l","i","g","h","t">>,
         <<"a","i","r","p","o","r","t">>, <<"c","h","e","v","r","o","n">>, <<"s","h","e","l","l">>, <<"b","p">>,
         <<"7","6">>, <<"e","x","x","o","n">>, <<"m","o","b","i","l">>, <<"l","y","f","t">> >>
    [] c = ShoppingRetail ->
      << <<"m","a","l","l">>, <<"c","e","n","t","r","e","p","o","i","n","t">>, <<"m","a","x">>,
         <<"h","o","m","e"," ","c","e","n","t","r","e">>, <<"i","k","e","a">>, <<"a","c","e">>,
         <<"s","h","a","r","a","f"," ","d","g">>, <<"j","u","m","b","o">>,
         <<"e","l","e","c","t","r","o","n","i","c","s">>, <<"c","l","o","t","h","i","n","g">>,
         <<"f","a","s","h","i","o","n">>, <<"s","h","o","p">>, <<"s","t","o","r","e">>,
         <<"r","e","t","a","i","l">>, <<"a","m","a","z","o","n">>, <<"n","o","o","n">>, <<"s","o","u","q">>,
         <<"n","a","m","s","h","i">>, <<"h","&","m">>, <<"z","a","r","a">>, <<"n","i","k","e">>,
         <<"a","d","i","d","a","s">>, <<"a","p","p","l","e">>, <<"s","a","m","s","u","n","g">>,
         <<"v","i","r","g","i","n">>, <<"u","n","i","q","l","o">>, <<"c","o","s","t","c","o">>,
         <<"b","e","s","t"," ","b","u","y">>, <<"m","a","c","y">>, <<"n","o","r","d","s","t","r","o","m">> >>
    [] c = Healthcare ->
      << <<"h","o","s","p","i","t","a","l">>, <<"c","l","i","n","i","c">>, <<"p","h","a","r","m","a","c","y">>,
         <<"m","e","d","i","c","a","l">>, <<"d","o","c","t","o","r">>, <<"h","e","a","l","t","h">>,
         <<"d","e","n","t","a","l">>, <<"m","e","d","i","c","a","r","e">>, <<"a","s","t","e","r">>,
         <<"n","m","c">>, <<"m","e","d","i","c","l","i","n","i","c">>,
         <<"l","i","f","e"," ","p","h","a","r","m","a","c","y">>, <<"b","o","o","t","s">>, <<"c","v","s">>,
         <<"w","a","l","g","r","e","e","n","s">> >>
    [] c = UtilitiesBills ->
      << <<"d","e","w","a">>, <<"a","d","d","c">>, <<"s","e","w","a">>, <<"f","e","w","a">>,
         <<"e","t","i","s","a","l","a","t">>, <<"d","u">>, <<"i","n","t","e","r","n","e","t">>,
         <<"m","o","b","i","l","e">>, <<"t","e","l","e","c","o","m">>,
         <<"e","l","e","c","t","r","i","c","i","t","y">>, <<"w","a","t","e","r">>, <<"u","t","i","l","i","t","y">>,
         <<"b","i","l","l">>, <<"w","i","f","i">>, <<"b","r","o","a","d","b","a","n","d">>,
         <<"v","e","r","i","z","o","n">>, <<"a","t","&","t">>, <<"t","-","m","o","b","i","l","e">> >>
    [] c = Entertainment ->
      << <<"c","i","n","e","m","a">>, <<"m","o","v","i","e">>, <<"v","o","x">>, <<"r","e","e","l">>,
         <<"n","e","t","f","l","i","x">>, <<"o","s","n">>, <<"g","a","m","i","n","g">>,
         <<"e","n","t","e","r","t","a","i","n","m","e","n","t">>, <<"p","a","r","k">>, <<"b","e","a","c","h">>,
         <<"a","t","t","r","a","c","t","i","o","n">>, <<"t","i","c","k","e","t">>, <<"e","v","e","n","t">>,
         <<"s","p","o","t","i","f","y">>, <<"y","o","u","t","u","b","e">>, <<"d","i","s","n","e","y">>,
         <<"h","u","l","u">>, <<"d","i","s","n","e","y","l","a","n","d">> >>
    [] c = Subscriptions ->
      << <<"n","e","t","f","l","i","x">>, <<"s","p","o","t","i","f","y">>,
         <<"y","o","u","t","u","b","e"," ","p","r","e","m","i","u","m">>,
         <<"a","m","a","z","o","n"," ","p","r","i","m","e">>, <<"d","i","s","n","e","y","+">>,
         <<"a","d","o","b","e">>, <<"m","i","c","r","o","s","o","f","t">>, <<"g","o","o","g","l","e">>,
         <<"i","c","l","o","u","d">>, <<"d","r","o","p","b","o","x">>, <<"z","o","o","m">>,
         <<"s","u","b","s","c","r","i","p","t","i","o","n">>, <<"s","a","a","s">>,
         <<"o","f","f","i","c","e"," ","3","6","5">>, <<"r","o","c","k","e","t"," ","m","o","n","e","y">> >>
    [] c = AtmCash ->
      << <<"a","t","m">>, <<"c","a","s","h"," ","w","i","t","h","d","r","a","w","a","l">>,
         <<"w","i","t","h","d","r","a","w","a","l">>, <<"c","a","s","h"," ","a","d","v","a","n","c","e">> >>
    [] c = BankingFinance ->
      << <<"t","r","a","n","s","f","e","r">>, <<"f","e","e">>, <<"c","h","a","r","g","e">>,
         <<"f","i","n","a","n","c","e">>, <<"l","o","a","n">>, <<"i","n","t","e","r","e","s","t">>,
         <<"b","a","n","k"," ","f","e","e">>, <<"s","e","r","v","i","c","e"," ","c","h","a","r","g","e">>,
         <<"w","i","r","e"," ","t","r","a","n","s","f","e","r">>, <<"z","e","l","l","e">> >>
    [] c = PersonalCare ->
      << <<"s","a","l","o","n">>, <<"s","p","a">>, <<"b","a","r","b","e","r","s","h","o","p">>,
         <<"b","e","a","u","t","y">>, <<"c","o","s","m","e","t","i","c","s">>, <<"s","k","i","n","c","a","r","e">>,
         <<"g","y","m">>, <<"f","i","t","n","e","s","s">>, <<"2","4","h","o","u","r","f","i","t","n","e","s","s">>,
         <<"p","l","a","n","e","t"," ","f","i","t","n","e","s","s">> >>

\* the same ten categories in the same order as the Excel processor (no guards)
Pdf_category_priority == category_priority

RECURSIVE Pdf_priority_pass(_, _)
Pdf_priority_pass(desc_lower, i) ==
  IF i > Len(Pdf_category_priority) THEN NoCategory
  ELSE IF AnyIn(Pdf_categories(Pdf_category_priority[i]), desc_lower)
       THEN Pdf_category_priority[i]
       ELSE Pdf_priority_pass(desc_lower, i + 1)

Pdf_default_category == OtherExpenses

Pdf_categorize_transaction(text) ==
  LET desc_lower == strip(lower(text))
      byPriority == Pdf_priority_pass(desc_lower, 1)
  IN  IF byPriority # NoCategory THEN byPriority ELSE Pdf_default_category

-----------------------------------------------------------------------------
(* Numbers as text, and worksheet cell values                              *)

DigitChars == << "0", "1", "2", "3", "4", "5", "6", "7", "8", "9" >>

IsDigit(c) == \E i \in 1..10 : DigitChars[i] = c

DigitVal(c) == (CHOOSE i \in 1..10 : DigitChars[i] = c) - 1

\* str(n) for an int n >= 0
RECURSIVE NatStr(_)
NatStr(n) ==
  IF n < 10 THEN << DigitChars[n + 1] >>
  ELSE NatStr(n \div 10) \o << DigitChars[(n % 10) + 1] >>

\* int(s) for a string of decimal digits
RECURSIVE StrNat(_)
StrNat(s) ==
  IF s = <<>> THEN 0 ELSE 10 * StrNat(SubSeq(s, 1, Len(s) - 1)) + DigitVal(s[Len(s)])

\* s.zfill(w) for a string of digits
RECURSIVE zfill(_, _)
zfill(s, w) == IF Len(s) >= w THEN s ELSE zfill(<<"0">> \o s, w)

Min(a, b) == IF a < b THEN a ELSE b

\* the regular expression \d{lo,hi} matched against the whole of s
DigitRun(s, lo, hi) ==
  Len(s) >= lo /\ Len(s) <= hi /\ \A i \in 1..Len(s) : IsDigit(s[i])

\* s.split(sep) for a one-character separator
RECURSIVE Split(_, _)
Split(s, sep) ==
  IF \A i \in 1..Len(s) : s[i] # sep THEN << s >>
  ELSE LET k == CHOOSE i \in 1..Len(s) : s[i] = sep /\ \A j \in 1..(i - 1) : s[j] # sep
       IN  << SubSeq(s, 1, k - 1) >> \o Split(SubSeq(s, k + 1, Len(s)), sep)

\* The values openpyxl hands out for a cell: None, a str, an int, a float
\* (counted in hundredths) or a datetime.
NoneCell == [t |-> "None"]
StrCell(s) == [t |-> "str", s |-> s]
IntCell(n) == [t |-> "int", n |-> n]
FloatCell(h) == [t |-> "float", h |-> h]
DateTimeCell(y, m, d) == [t |-> "datetime", y |-> y, m |-> m, d |-> d]

\* bool(value): the truth value Python gives a cell value
Truthy(c) ==
  CASE c.t = "None"     -> FALSE
    [] c.t = "str"      -> c.s # <<>>
    [] c.t = "int"      -> c.n # 0
    [] c.t = "float"    -> c.h # 0
    [] c.t = "datetime" -> TRUE

\* datetime.strftime('%Y-%m-%d')
strftime(dt) ==
  zfill(NatStr(dt.y), 4) \o <<"-">> \o zfill(NatStr(dt.m), 2) \o <<"-">> \o zfill(NatStr(dt.d), 2)

\* str(x) of a float of |h| hundredths: 50.0, 50.5, 50.25
FloatStr(h) ==
  NatStr(h \div 100) \o <<".">> \o
  (IF h % 10 = 0 THEN NatStr((h % 100) \div 10) ELSE zfill(NatStr(h % 100), 2))

\* str(value)
PyStr(c) ==
  CASE c.t = "None"     -> <<"N","o","n","e">>
    [] c.t = "str"      -> c.s
    [] c.t = "int"      -> IF c.n < 0 THEN <<"-">> \o NatStr(-c.n) ELSE NatStr(c.n)
    [] c.t = "float"    -> IF c.h < 0 THEN <<"-">> \o FloatStr(-c.h) ELSE FloatStr(c.h)
    [] c.t = "datetime" -> strftime(c) \o <<" ","0","0",":","0","0",":","0","0">>

\* the days of a month of the calendar
IsLeapYear(y) == (y % 4 = 0 /\ y % 100 # 0) \/ y % 400 = 0

DaysInMonth(y, m) ==
  IF m = 2 THEN (IF IsLeapYear(y) THEN 29 ELSE 28)
  ELSE IF m \in {4, 6, 9, 11} THEN 30 ELSE 31

-----------------------------------------------------------------------------
(* Date normaliser: the patterns of detect_date_format                     *)

\* the list with the US reading of a four-digit-year date tried first
date_patterns_us_first == << "MM/DD/YYYY", "MM/DD/YY", "DD/MM/YYYY", "YYYY-MM-DD" >>

\* the four (pattern, formatter) pairs, in the order of the list
date_patterns == << "DD/MM/YYYY", "MM/DD/YY", "MM/DD/YYYY", "YYYY-MM-DD" >>

\* re.match(pattern, date_str): three digit groups of the given widths
\* around the separator
GroupsMatch(date_str, sep, w1, w2, w3) ==
  LET g == Split(date_str, sep)
  IN  /\ Len(g) = 3
      /\ DigitRun(g[1], w1[1], w1[2])
      /\ DigitRun(g[2], w2[1], w2[2])
      /\ DigitRun(g[3], w3[1], w3[2])

PatternMatches(pattern, date_str) ==
  CASE pattern = "DD/MM/YYYY" -> GroupsMatch(date_str, "/", <<1, 2>>, <<1, 2>>, <<4, 4>>)
    [] pattern = "MM/DD/YY"   -> GroupsMatch(date_str, "/", <<1, 2>>, <<1, 2>>, <<2, 2>>)
    [] pattern = "MM/DD/YYYY" -> GroupsMatch(date_str, "/", <<1, 2>>, <<1, 2>>, <<4, 4>>)
    [] pattern = "YYYY-MM-DD" -> GroupsMatch(date_str, "-", <<4, 4>>, <<1, 2>>, <<1, 2>>)

\* what the loop body returns for a matching pattern: the special handling
\* of the two-digit year, or the pattern's formatter
PatternFormat(pattern, date_str) ==
  LET sep == IF pattern = "YYYY-MM-DD" THEN "-" ELSE "/"
      g == Split(date_str, sep)
      dash == <<"-">>
  IN  CASE pattern = "DD/MM/YYYY" -> g[3] \o dash \o zfill(g[2], 2) \o dash \o zfill(g[1], 2)
        [] pattern = "MM/DD/YY" ->
             (IF StrNat(g[3]) < 50 THEN <<"2","0">> \o g[3] ELSE <<"1","9">> \o g[3])
               \o dash \o zfill(g[1], 2) \o dash \o zfill(g[2], 2)
        [] pattern = "MM/DD/YYYY" -> g[3] \o dash \o zfill(g[1], 2) \o dash \o zfill(g[2], 2)
        [] pattern = "YYYY-MM-DD" -> g[1] \o dash \o zfill(g[2], 2) \o dash \o zfill(g[3], 2)

\* "no pattern matched" (no formatted date is empty)
NoMatch == <<>>

\* the loop over the patterns from position i on
RECURSIVE TryPatterns(_, _)
TryPatterns(date_str, i) ==
  IF i > Len(date_patterns) THEN NoMatch
  ELSE IF PatternMatches(date_patterns[i], date_str)
       THEN PatternFormat(date_patterns[i], date_str)
       ELSE TryPatterns(date_str, i + 1)

-----------------------------------------------------------------------------
(* Transaction builder: one row of a sheet in process_excel_file           *)

\* s.replace(c, '')
RemoveChar(s, c) == SelectSeq(s, LAMBDA x : x # c)

\* A Python float is a finite number counted in hundredths, an infinity or
\* the not-a-number value.
NaN == [t |-> "nan"]

Infinity(negative) == [t |-> "inf", negative |-> negative]

IsFinite(x) == x.t = "float"

\* x == 0, x < 0 and x > 0 of Python floats: every comparison with the
\* not-a-number value is false, x != 0 with it is true
IsZero(x) == (x.t = "int" /\ x.n = 0) \/ (IsFinite(x) /\ x.h = 0)

IsNegative(x) == (IsFinite(x) /\ x.h < 0) \/ (x.t = "inf" /\ x.negative)

IsPositive(x) == (IsFinite(x) /\ x.h > 0) \/ (x.t = "inf" /\ ~x.negative)

\* the spellings float() reads as not-a-number and as infinity
nan_spellings == { <<"n","a","n">> }

inf_spellings == { <<"i","n","f">>, <<"i","n","f","i","n","i","t","y">> }

\* float(s): [ok |-> FALSE] stands for ValueError.  The grammar is blanks, a
\* sign, then digits with at most one point, or one of the special
\* spellings in any case (the model's cell texts carry at most two decimals
\* and no exponent).
PyFloat(s) ==
  LET u == strip(s)
      signed == u # <<>> /\ u[1] \in {"-", "+"}
      negative == signed /\ u[1] = "-"
      body == IF signed THEN Tail(u) ELSE u
      p == Split(body, ".")
      wellFormed ==
        /\ Len(p) \in {1, 2}
        /\ \A k \in 1..Len(p) : DigitRun(p[k], 0, Len(body))
        /\ \E k \in 1..Len(p) : p[k] # <<>>
      frac == IF Len(p) = 2 THEN StrNat(SubSeq(p[2] \o <<"0", "0">>, 1, 2)) ELSE 0
      magnitude == 100 * StrNat(p[1]) + frac
  IN  IF lower(body) \in nan_spellings THEN [ok |-> TRUE, v |-> NaN]
      ELSE IF lower(body) \in inf_spellings THEN [ok |-> TRUE, v |-> Infinity(negative)]
      ELSE IF wellFormed
      THEN [ok |-> TRUE, v |-> FloatCell(IF negative THEN -magnitude ELSE magnitude)]
      ELSE [ok |-> FALSE, v |-> FloatCell(0)]

\* abs(x) and -x of Python floats
Abs(x) ==
  IF x = NaN THEN NaN
  ELSE IF x.t = "inf" THEN Infinity(FALSE)
  ELSE FloatCell(IF x.h < 0 THEN -x.h ELSE x.h)

Neg(x) ==
  IF x = NaN THEN NaN
  ELSE IF x.t = "inf" THEN Infinity(~x.negative)
  ELSE FloatCell(-x.h)

\* the keywords that mark a summary row, looked for in the upper-cased text
\* of the date cell and of the description cell
summary_date_keywords ==
  << <<"T","O","T","A","L">>, <<"S","U","M","M","A","R","Y">>, <<"B","A","L","A","N","C","E">>, <<"O","P","E","N","I","N","G">>, <<"C","L","O","S","I","N","G">> >>

summary_description_keywords ==
  << <<"T","O","T","A","L">>, <<"S","U","M","M","A","R","Y">>, <<"M","O","N","T","H","L","Y">> >>

\* the texts of a debit or credit cell that stand for "no amount"
amount_placeholders == { <<>>, <<"-">>, <<"N","o","n","e">> }

\* the test both the debit and the credit branch make on their cell
HoldsAmount(cell) ==
  /\ Truthy(cell)
  /\ strip(PyStr(cell)) # <<>>
  /\ strip(PyStr(cell)) \notin amount_placeholders

\* a debit read as the opposite sign
DebitAmount_unsigned(x) == Abs(x)

DebitAmount(x) == Neg(Abs(x))

CreditAmount(x) == Abs(x)

\* the amount of a row: [raised, amount, source]; raised stands for the
\* ValueError of float() on a malformed number, source names the cell the
\* amount was taken from
ResolveAmount(by_amount_col, debit_cell, credit_cell, amount_cell) ==
  IF by_amount_col
  THEN LET f == PyFloat(RemoveChar(IF Truthy(amount_cell) THEN PyStr(amount_cell) ELSE <<"0">>, ","))
       IN  [raised |-> ~f.ok, amount |-> f.v, source |-> "amount"]
  ELSE IF HoldsAmount(debit_cell)
  THEN LET f == PyFloat(RemoveChar(PyStr(debit_cell), ","))
       IN  [raised |-> ~f.ok, amount |-> DebitAmount(f.v), source |-> "debit"]
  ELSE IF HoldsAmount(credit_cell)
  THEN LET f == PyFloat(RemoveChar(PyStr(credit_cell), ","))
       IN  [raised |-> ~f.ok, amount |-> CreditAmount(f.v), source |-> "credit"]
  ELSE [raised |-> FALSE, amount |-> IntCell(0), source |-> "none"]

Miscellaneous == <<"M","i","s","c","e","l","l","a","n","e","o","u","s">>

\* the transaction dict built for a row (Category is kept as a Python
\* value: the batcher can later store any JSON value in it)
MakeTransaction(date_str, amount, text, category) ==
  [ Date |-> date_str,
    Amount |-> amount,
    Description |-> text,
    Category |-> StrCell(category),
    Subcategory |-> IF category # OtherExpenses THEN FirstWord(category) ELSE Miscellaneous ]

\* f"Transaction {n}"
SynthesizedDescription(n) == <<"T","r","a","n","s","a","c","t","i","o","n"," ">> \o NatStr(n)

-----------------------------------------------------------------------------
(* Bank information                                                        *)

\* the patterns of each bank, in the order of the dict, and the name
\* detect_bank returns for the bank
bank_patterns ==
  << << <<"a","b","u"," ","d","h","a","b","i"," ","c","o","m","m","e","r","c","i","a","l"," ","b","a","n","k">>, <<"a","d","c","b">> >>,
     << <<"f","i","r","s","t"," ","a","b","u"," ","d","h","a","b","i"," ","b","a","n","k">>, <<"f","a","b">> >>,
     << <<"e","m","i","r","a","t","e","s"," ","n","b","d">>, <<"e","n","b","d">> >>,
     << <<"m","a","s","h","r","e","q"," ","b","a","n","k">>, <<"m","a","s","h","r","e","q">> >>,
     << <<"c","o","m","m","e","r","c","i","a","l"," ","b","a","n","k"," ","o","f"," ","d","u","b","a","i">>, <<"c","b","d">> >>,
     << <<"h","s","b","c">> >>,
     << <<"r","a","k"," ","b","a","n","k">>, <<"r","a","k","b","a","n","k">> >>,
     << <<"a","b","u"," ","d","h","a","b","i"," ","i","s","l","a","m","i","c"," ","b","a","n","k">>, <<"a","d","i","b">> >>,
     << <<"b","a","n","k"," ","o","f"," ","a","m","e","r","i","c","a">>, <<"b","o","f","a">>, <<"b","o","a">>, <<"b"," ","o","f"," ","a">> >>,
     << <<"c","h","a","s","e">>, <<"j","p"," ","m","o","r","g","a","n"," ","c","h","a","s","e">>, <<"j","p","m","o","r","g","a","n">> >>,
     << <<"w","e","l","l","s"," ","f","a","r","g","o">>, <<"w","e","l","l","s">> >>,
     << <<"c","i","t","i","b","a","n","k">>, <<"c","i","t","i">> >> >>

bank_names ==
  << <<"A","b","u"," ","D","h","a","b","i"," ","C","o","m","m","e","r","c","i","a","l"," ","B","a","n","k">>,
     <<"F","i","r","s","t"," ","A","b","u"," ","D","h","a","b","i"," ","B","a","n","k">>,
     <<"E","m","i","r","a","t","e","s"," ","N","B","D">>,
     <<"M","a","s","h","r","e","q"," ","B","a","n","k">>,
     <<"C","o","m","m","e","r","c","i","a","l"," ","B","a","n","k"," ","o","f"," ","D","u","b","a","i">>,
     <<"H","S","B","C"," ","B","a","n","k"," ","M","i","d","d","l","e"," ","E","a","s","t">>,
     <<"R","A","K","B","a","n","k">>,
     <<"A","b","u"," ","D","h","a","b","i"," ","I","s","l","a","m","i","c"," ","B","a","n","k">>,
     <<"B","a","n","k"," ","o","f"," ","A","m","e","r","i","c","a">>,
     <<"C","h","a","s","e"," ","B","a","n","k">>,
     <<"W","e","l","l","s"," ","F","a","r","g","o">>,
     <<"C","i","t","i","b","a","n","k">> >>

UnknownBank == <<"U","n","k","n","o","w","n"," ","B","a","n","k">>

RECURSIVE detect_bank_from(_, _)
detect_bank_from(text_lower, i) ==
  IF i > Len(bank_patterns) THEN UnknownBank
  ELSE IF AnyIn(bank_patterns[i], text_lower) THEN bank_names[i]
  ELSE detect_bank_from(text_lower, i + 1)

detect_bank(text) == detect_bank_from(lower(text), 1)

account_number_placeholder == <<"X","X","X","X","-","X","X","X","X","-","X","X","X","X">>

\* bank_info as process_excel_file starts it
default_bank_info ==
  [ bank_name |-> UnknownBank,
    account_holder |-> <<"A","c","c","o","u","n","t"," ","H","o","l","d","e","r">>,
    account_number |-> account_number_placeholder,
    currency |-> <<"U","S","D">> ]

\* bank_info as extract_bank_info starts it
scan_bank_info ==
  [ bank_name |-> <<"U","A","E"," ","B","a","n","k">>,
    account_holder |-> <<"A","c","c","o","u","n","t"," ","H","o","l","d","e","r">>,
    account_number |-> account_number_placeholder,
    currency |-> <<"A","E","D">> ]

\* str(value or '')
StrOrEmpty(cell) == IF Truthy(cell) THEN PyStr(cell) ELSE <<>>

\* the words that make a detected bank a US bank
us_bank_words ==
  << <<"A","m","e","r","i","c","a">>, <<"C","h","a","s","e">>, <<"W","e","l","l","s">>, <<"C","i","t","i">> >>

\* the body of the loop over the rows of the 'Account Info' sheet
InfoRowStep(info, field_cell, value_cell) ==
  LET field == lower(StrOrEmpty(field_cell))
      value == StrOrEmpty(value_cell)
      detected_bank == detect_bank(value)
  IN  IF Contains(field, <<"a","c","c","o","u","n","t"," ","h","o","l","d","e","r">>) /\ value # <<>>
        THEN [info EXCEPT !.account_holder = value]
      ELSE IF Contains(field, <<"a","c","c","o","u","n","t"," ","n","u","m","b","e","r">>) /\ value # <<>>
        THEN [info EXCEPT !.account_number = value]
      ELSE IF Contains(field, <<"b","a","n","k"," ","n","a","m","e">>) /\ value # <<>>
        THEN IF detected_bank # UnknownBank
               THEN [info EXCEPT !.bank_name = detected_bank,
                                 !.currency = IF AnyIn(us_bank_words, detected_bank)
                                              THEN <<"U","S","D">> ELSE <<"A","E","D">>]
             ELSE info
      ELSE info

\* the loop over the rows of the 'Account Info' sheet
RECURSIVE AccountInfoLoop(_, _)
AccountInfoLoop(info, info_rows) ==
  IF info_rows = <<>> THEN info
  ELSE AccountInfoLoop(InfoRowStep(info, Head(info_rows)[1], Head(info_rows)[2]), Tail(info_rows))

IsLetter(c) == c \in DOMAIN LowerTable \/ c \in DOMAIN UpperTable

\* str.title(): a letter that follows no letter is upper-cased, the other
\* letters are lower-cased
title(s) ==
  [ i \in 1..Len(s) |->
      IF ~IsLetter(s[i]) THEN s[i]
      ELSE IF i = 1 \/ ~IsLetter(s[i - 1]) THEN upper(<< s[i] >>)[1]
      ELSE lower(<< s[i] >>)[1] ]

\* len(s.split())
WordCount(s) == Cardinality({ i \in 1..Len(s) : s[i] # " " /\ (i = 1 \/ s[i - 1] = " ") })

honorifics == << <<"m","r">>, <<"m","s">>, <<"m","r","s">>, <<"d","r">> >>

\* re.match(r'^\d{10,16}$', ...) on the text without blanks and dashes
LooksLikeAccountNumber(s) == DigitRun(RemoveChar(RemoveChar(s, " "), "-"), 10, 16)

\* s[:4] + '-' + '*' * 4 + '-' + s[-4:]
Masked(s) ==
  SubSeq(s, 1, Min(4, Len(s))) \o <<"-","*","*","*","*","-">>
    \o SubSeq(s, IF Len(s) > 4 THEN Len(s) - 3 ELSE 1, Len(s))

\* the body of the loops of extract_bank_info for one cell
ScanCellStep(info, cell) ==
  LET cell_value == upper(StrOrEmpty(cell))
      bank_name == detect_bank(cell_value)
      named == IF bank_name \notin { <<"U","A","E"," ","B","a","n","k">>, UnknownBank }
               THEN [info EXCEPT !.bank_name = bank_name] ELSE info
      held == IF /\ WordCount(cell_value) >= 2 /\ WordCount(cell_value) <= 4
                 /\ ~\E i \in 1..Len(cell_value) : IsDigit(cell_value[i])
                 /\ AnyIn(honorifics, lower(cell_value))
              THEN [named EXCEPT !.account_holder = title(cell_value)] ELSE named
  IN  IF LooksLikeAccountNumber(cell_value)
      THEN [held EXCEPT !.account_number = Masked(cell_value)]
      ELSE held

-----------------------------------------------------------------------------
(* Header detection: find_data_headers                                     *)

header_keywords ==
  << <<"d","a","t","e">>, <<"a","m","o","u","n","t">>, <<"d","e","s","c","r","i","p","t","i","o","n">>, <<"p","a","r","t","i","c","u","l","a","r">>, <<"n","a","r","r","a","t","i","o","n">>, <<"d","e","b","i","t">>, <<"c","r","e","d","i","t">>, <<"b","a","l","a","n","c","e">>, <<"t","y","p","e">>, <<"r","e","f","e","r","e","n","c","e">> >>

\* the rows and columns the scan is limited to, and the number of header
\* cells that makes a row the header row
row_scan_limit == 20

column_scan_limit == 10

header_threshold == 3

\* str(cell or '').lower().strip()
HeaderCellText(cell) == strip(lower(StrOrEmpty(cell)))

\* the test that counts a cell as a header cell
IsHeaderCell(cell_value) == cell_value # <<>> /\ AnyIn(header_keywords, cell_value)

\* the key of row_data the elif chain stores the column of the cell under
HeaderRole(cell_value) ==
  IF Contains(cell_value, <<"d","a","t","e">>) THEN "date_col"
  ELSE IF \/ Contains(cell_value, <<"d","e","s","c","r","i","p","t","i","o","n">>)
          \/ Contains(cell_value, <<"p","a","r","t","i","c","u","l","a","r">>)
          \/ Contains(cell_value, <<"n","a","r","r","a","t","i","o","n">>) THEN "description_col"
  ELSE IF Contains(cell_value, <<"t","y","p","e">>) THEN "type_col"
  ELSE IF Contains(cell_value, <<"r","e","f","e","r","e","n","c","e">>) \/ Contains(cell_value, <<"r","e","f">>) THEN "reference_col"
  ELSE IF Contains(cell_value, <<"d","e","b","i","t">>) THEN "debit_col"
  ELSE IF Contains(cell_value, <<"c","r","e","d","i","t">>) THEN "credit_col"
  ELSE IF Contains(cell_value, <<"a","m","o","u","n","t">>) THEN "amount_col"
  ELSE "none"

\* the columns of a row the inner loop visits
ScannedColumns(width) == 1..(Min(width + 1, column_scan_limit) - 1)

\* the empty dict
EmptyDict == [key \in {} |-> 0]

\* the inner loop over the columns 1..last of a row: the row_data dict and
\* header_count it leaves (a later cell of a role overwrites an earlier one)
RECURSIVE ScanColumns(_, _)
ScanColumns(cells, last) ==
  IF last = 0 THEN [row_data |-> EmptyDict, header_count |-> 0]
  ELSE LET above == ScanColumns(cells, last - 1)
           cell_value == HeaderCellText(cells[last])
       IN  IF ~IsHeaderCell(cell_value) THEN above
           ELSE [ row_data |-> IF HeaderRole(cell_value) = "none" THEN above.row_data
                               ELSE (HeaderRole(cell_value) :> last) @@ above.row_data,
                  header_count |-> above.header_count + 1 ]

\* the mapping returned when no header row is found
default_column_map ==
  [header_row |-> 1, date_col |-> 1, description_col |-> 2, debit_col |-> 4, credit_col |-> 5]

-----------------------------------------------------------------------------
(* State                                                                   *)

VARIABLES
  description,   \* the description handed to the rule-based categorizers
  xls_category,  \* results of the calls of the Excel categorizer, oldest first
  pdf_category,  \* results of the calls of the PDF categorizer, oldest first
  now,           \* the clock: what datetime.now() returns
  date_string,   \* the value handed to detect_date_format
  date_result,   \* the values detect_date_format returned for it, oldest first
  pc,            \* where process_excel_file stands
  amount_col,    \* whether the sheet's column map has an amount column
  rows_read,     \* how many data rows of the sheet the row loop has visited
  all_transactions,  \* the transaction dicts built so far, in order
  last_row,      \* the cells read in the latest visited row, and what became of it
  api_key,       \* whether openai.api_key is set
  processor,     \* whose ai_categorize_transactions runs: "xls" or "pdf"
  before,        \* the transaction dicts as they were when the batcher was called
  batch_start,   \* the loop variable i of the batch loop
  categorized_transactions,  \* the list the batcher builds: positions in all_transactions
  calls,         \* the classifier calls made so far and how their batches ended
  result,        \* the list the batcher returned: positions in all_transactions
  bank_info,     \* the bank_info dict being filled
  cells_read,    \* how many rows of 'Account Info' (cells of the header scan) were read
  last_cell,     \* the field and value cells read latest
  max_row,       \* worksheet.max_row of the sheet find_data_headers searches
  max_column,    \* worksheet.max_column of that sheet
  row,           \* the loop variable of the search: the row read latest
  row_cells,     \* the cells of that row
  column_map,    \* the mapping find_data_headers returned
  environment,   \* EXCEL_AVAILABLE and the three PDF availability flags
  document,      \* the file handed to process_pdf_file or process_excel_file
  text_content,  \* the text extract_text_from_pdf returned
  tables_data,   \* the tables it returned
  opened_handles,  \* the workbook and PDF document handles opened during the call
  open_handles,  \* those of them that are open
  api_calls,     \* the requests made to the OpenAI API during the call and their outcomes, oldest first
  returned,      \* the pair the call returned
  workbook,      \* the sheets of the loaded workbook, in the order of workbook.sheetnames
  sheet_index,   \* the position in workbook.sheetnames of the sheet the sheet loop stands at
  origins,       \* for every transaction built, the sheet and the row it was built from
  lines,         \* the lines of the text handed to fallback_extraction
  lines_read,    \* how many of them the line loop has visited
  last_line      \* what the loop matched in the line visited latest, and what became of it

catVars == << description, xls_category, pdf_category >>
dateVars == << date_string, date_result >>
rowVars == << amount_col, rows_read, last_row >>
aiVars == << api_key, processor, before, batch_start, categorized_transactions, calls, result >>
bankVars == << bank_info, cells_read, last_cell >>
headerVars == << max_row, max_column, row, row_cells, column_map >>
callVars == << environment, document, text_content, tables_data, opened_handles, open_handles, api_calls, returned >>
bookVars == << workbook, sheet_index, origins >>
scanVars == << lines, lines_read, last_line >>
vars == << catVars, now, dateVars, pc, rowVars, all_transactions, aiVars, bankVars, headerVars, callVars, bookVars, scanVars >>

\* what the actions of one lane leave alone
exceptCat == << now, dateVars, pc, rowVars, all_transactions, aiVars, bankVars, headerVars, callVars, bookVars, scanVars >>
exceptDate == << catVars, now, pc, rowVars, all_transactions, aiVars, bankVars, headerVars, callVars, bookVars, scanVars >>
exceptRows == << catVars, dateVars, now, aiVars, bankVars, headerVars, callVars, bookVars, scanVars >>
exceptAi == << catVars, dateVars, now, rowVars, bankVars, headerVars, callVars, bookVars, scanVars >>
exceptBank == << catVars, dateVars, now, rowVars, all_transactions, aiVars, headerVars, callVars, bookVars, scanVars >>
exceptHeaders == << catVars, dateVars, now, rowVars, all_transactions, aiVars, bankVars, callVars, bookVars, scanVars >>
exceptCall ==
  << catVars, dateVars, now, rowVars, processor, before, batch_start, categorized_transactions,
     calls, result, cells_read, last_cell, headerVars, bookVars, scanVars >>
exceptBook == << catVars, dateVars, now, aiVars, bankVars, callVars, scanVars >>
exceptScan ==
  << catVars, dateVars, rowVars, now, aiVars, bankVars, headerVars, environment, document,
     text_content, tables_data, opened_handles, open_handles, api_calls, bookVars >>

\* a lane that takes no part in a specification rests in these values
CatIdle == description = <<>> /\ xls_category = <<>> /\ pdf_category = <<>>

DateIdle == date_string = NoneCell /\ date_result = <<>>

NoRow == [outcome |-> "no row"]

RowsIdle ==
  /\ pc = "idle"
  /\ amount_col = FALSE
  /\ rows_read = 0
  /\ all_transactions = <<>>
  /\ last_row = NoRow

AiIdle ==
  /\ api_key = FALSE
  /\ processor = "xls"
  /\ before = <<>>
  /\ batch_start = 0
  /\ categorized_transactions = <<>>
  /\ calls = <<>>
  /\ result = <<>>

NoCell == [field |-> NoneCell, value |-> NoneCell]

BankIdle ==
  /\ bank_info = default_bank_info
  /\ cells_read = 0
  /\ last_cell = NoCell

\* no mapping returned yet (find_data_headers returns no header_row below 1)
NoMap == [header_row |-> 0]

HeadersIdle ==
  /\ max_row = 0
  /\ max_column = 0
  /\ row = 0
  /\ row_cells = <<>>
  /\ column_map = NoMap

BookIdle ==
  /\ workbook = <<>>
  /\ sheet_index = 0
  /\ origins = <<>>

NoLine == [outcome |-> "no line"]

ScanIdle ==
  /\ lines = <<>>
  /\ lines_read = 0
  /\ last_line = NoLine

\* no pair returned yet
NoReturn == [t |-> "no return"]

CallIdle ==
  /\ environment = [excel |-> TRUE, pdfplumber |-> TRUE, pymupdf |-> TRUE, pypdf2 |-> TRUE]
  /\ document = [kind |-> "none"]
  /\ text_content = <<>>
  /\ tables_data = <<>>
  /\ opened_handles = {}
  /\ open_handles = {}
  /\ api_calls = <<>>
  /\ returned = NoReturn

\* the clock readings of the model
ClockReadings == { DateTimeCell(2026, 10, 31), DateTimeCell(2024, 2, 29) }

-----------------------------------------------------------------------------
(* The rule-based categorizers applied to bounded descriptions             *)

\* words the descriptions are built from (mixed case; the empty word gives
\* leading, trailing and doubled blanks)
Vocabulary ==
  << <<"A","T","M">>,
     <<"C","a","s","h">>,
     <<"N","e","t","f","l","i","x">>,
     <<"D","r","o","p","b","o","x">>,
     <<"L","o","a","n">>,
     <<"C","o","f","f","e","e">>,
     <<"T","r","a","n","s","f","e","r">>,
     <<"A","n","n","u","a","l">>,
     <<"S","a","l","a","r","y">>,
     <<"M","a","l","l">>,
     <<"G","y","m">>,
     <<"Z","o","m","a","t","o">>,
     <<>> >>

MaxWords == 2
MaxCalls == 2

\* every text of n vocabulary words joined by single blanks
RECURSIVE TextsOfWords(_)
TextsOfWords(n) ==
  IF n = 1 THEN { Vocabulary[i] : i \in 1..Len(Vocabulary) }
  ELSE { t \o <<" ">> \o Vocabulary[i] : t \in TextsOfWords(n - 1), i \in 1..Len(Vocabulary) }

Descriptions == UNION { TextsOfWords(n) : n \in 1..MaxWords }

CatInit ==
  /\ description \in Descriptions
  /\ xls_category = <<>>
  /\ pdf_category = <<>>
  /\ now \in ClockReadings
  /\ DateIdle
  /\ RowsIdle
  /\ AiIdle
  /\ BankIdle
  /\ HeadersIdle
  /\ CallIdle
  /\ BookIdle
  /\ ScanIdle

\* categorize_transaction of the Excel processor is called on the description
XlsCategorize ==
  /\ Len(xls_category) < MaxCalls
  /\ xls_category' = Append(xls_category, Xls_categorize_transaction(description))
  /\ UNCHANGED << description, pdf_category, exceptCat >>

\* categorize_transaction of the PDF processor is called on the description
PdfCategorize ==
  /\ Len(pdf_category) < MaxCalls
  /\ pdf_category' = Append(pdf_category, Pdf_categorize_transaction(description))
  /\ UNCHANGED << description, xls_category, exceptCat >>

CatNext == XlsCategorize \/ PdfCategorize

SpecCat == CatInit /\ [][CatNext]_vars

-----------------------------------------------------------------------------
(* The date normaliser applied to bounded cell values                      *)

\* the fallback being a fixed day instead of the clock's
detect_date_format_fixed_day(value) ==
  IF value.t = "datetime" THEN strftime(value)
  ELSE LET date_str == strip(PyStr(value))
           formatted == TryPatterns(date_str, 1)
       IN  IF formatted # NoMatch THEN formatted ELSE strftime(DateTimeCell(1970, 1, 1))

detect_date_format(value) ==
  IF value.t = "datetime" THEN strftime(value)
  ELSE LET date_str == strip(PyStr(value))
           formatted == TryPatterns(date_str, 1)
       IN  IF formatted # NoMatch THEN formatted ELSE strftime(now)

\* day and month fields run over 1..MaxField, written with and without a
\* leading zero
MaxField == 31

FieldTexts == { NatStr(n) : n \in 1..MaxField } \cup { zfill(NatStr(n), 2) : n \in 1..9 }

Year4Texts == { <<"2","0","2","4">>, <<"1","9","9","9">> }

Year2Texts == { <<"2","3">>, <<"0","0">>, <<"4","9">>, <<"5","0">>, <<"9","9">> }

\* texts of the shapes the patterns are written for
SlashDates ==
  { a \o <<"/">> \o b \o <<"/">> \o y : a \in FieldTexts, b \in FieldTexts, y \in Year4Texts \cup Year2Texts }

DashDates ==
  { y \o <<"-">> \o a \o <<"-">> \o b : a \in FieldTexts, b \in FieldTexts, y \in Year4Texts }

\* texts no pattern is written for, and padded texts
OtherDateTexts ==
  { <<"n","/","a">>,
    <<"2","5","-","1","2","-","2","0","2","4">>,
    <<"2","5",".","1","2",".","2","0","2","4">>,
    <<"2","0","2","4","/","1","2","/","2","5">>,
    <<"1","/","2","/","3">>,
    <<"1","/","2","/","2","0","2","4","5">>,
    <<"1","2","3","/","1","/","2","0","2","4">>,
    <<"2","5","/","1","2","/","2","0","2","4","x">>,
    <<"J","a","n"," ","5",","," ","2","0","2","4">>,
    <<" ","2","5","/","1","2","/","2","0","2","4"," ">>,
    <<" ","0","3","/","0","4","/","2","3">>,
    <<"2","0","2","4","-","0","1","-","0","5"," ">>,
    <<" ">> }

DateValues ==
  { StrCell(s) : s \in SlashDates \cup DashDates \cup OtherDateTexts }
    \cup { IntCell(45000), FloatCell(4500050), DateTimeCell(2024, 1, 5), DateTimeCell(1999, 12, 31) }

DateInit ==
  /\ now \in ClockReadings
  /\ date_string \in DateValues
  /\ date_result = <<>>
  /\ CatIdle
  /\ RowsIdle
  /\ AiIdle
  /\ BankIdle
  /\ HeadersIdle
  /\ CallIdle
  /\ BookIdle
  /\ ScanIdle

\* detect_date_format is called on the value
DetectDate ==
  /\ date_result = <<>>
  /\ date_result' = << detect_date_format(date_string) >>
  /\ UNCHANGED << date_string, exceptDate >>

DateNext == DetectDate

SpecDate == DateInit /\ [][DateNext]_vars

-----------------------------------------------------------------------------
(* The row loop of process_excel_file on a sheet of bounded cells          *)

\* a sheet holds at most MaxRows data rows below its header row
MaxRows == 2

\* the cell values of the model's sheets
DateCells ==
  { NoneCell, StrCell(<<"1","5","/","0","1","/","2","0","2","4">>), StrCell(<<"1","2","/","2","5","/","2","0","2","4">>), StrCell(<<"n","/","a">>), StrCell(<<"T","o","t","a","l">>) }

DescriptionCells ==
  { NoneCell, StrCell(<<"C","a","r","r","e","f","o","u","r"," ","M","a","l","l">>), StrCell(<<"M","o","n","t","h","l","y"," ","S","u","m","m","a","r","y">>),
    StrCell(<<" ">>), StrCell(<<"O","p","e","n","i","n","g"," ","B","a","l","a","n","c","e">>) }

DebitCells ==
  { NoneCell, IntCell(50), StrCell(<<"-">>), StrCell(<<"0",".","0","0">>), StrCell(<<"a","b","c">>), StrCell(<<"n","a","n">>) }

CreditCells ==
  { NoneCell, StrCell(<<"-","1",",","2","5","0",".","5","0">>) }

AmountCells ==
  { NoneCell, IntCell(-75), StrCell(<<"1",",","0","0","0",".","0","0">>), StrCell(<<"a","b","c">>) }

\* the descriptions the rows of these sheets can carry: the stripped text of
\* a description cell, or the synthesized "Transaction n"
SheetDescriptions ==
  { strip(PyStr(c)) : c \in DescriptionCells } \cup { SynthesizedDescription(n) : n \in 1..MaxRows }

\* categorize_transaction tabulated once over the descriptions of the sheets
\* (the table is built from the categorizer itself; it only spares the model
\* checker the keyword scan at every row)
SheetCategories ==
  [text \in SheetDescriptions |-> Xls_categorize_transaction(text)] @@ <<>>

\* self.categorize_transaction(description) as the row loop calls it
CategoryOf(text) ==
  IF text \in DOMAIN SheetCategories THEN SheetCategories[text]
  ELSE Xls_categorize_transaction(text)

\* The body of the row loop for one row, given the cells it reads and the
\* number n of transactions built so far: what became of the row, the cell
\* the amount came from, and the transaction built (if one was).
RowStep(date_cell, description_cell, debit_cell, credit_cell, amount_cell, n) ==
  LET resolved == ResolveAmount(amount_col, debit_cell, credit_cell, amount_cell)
      text == IF Truthy(description_cell) THEN strip(PyStr(description_cell))
              ELSE SynthesizedDescription(n + 1)
      none == [outcome |-> "skipped", source |-> "none", tx |-> <<>>]
  IN  IF ~Truthy(date_cell)
        THEN [none EXCEPT !.outcome = "empty date"]
      ELSE IF AnyIn(summary_date_keywords, upper(PyStr(date_cell)))
        THEN [none EXCEPT !.outcome = "summary row"]
      ELSE IF /\ Truthy(description_cell)
              /\ AnyIn(summary_description_keywords, upper(PyStr(description_cell)))
        THEN [none EXCEPT !.outcome = "summary row"]
      ELSE IF resolved.raised
        THEN [none EXCEPT !.outcome = "bad number", !.source = resolved.source]
      ELSE IF IsZero(resolved.amount)
        THEN [none EXCEPT !.outcome = "no amount", !.source = resolved.source]
      ELSE [ outcome |-> "emitted",
             source |-> resolved.source,
             tx |-> << MakeTransaction(detect_date_format(date_cell), resolved.amount, text,
                                       CategoryOf(text)) >> ]

XlsInit ==
  /\ now = DateTimeCell(2024, 2, 29)
  /\ pc = "rows"
  /\ amount_col \in BOOLEAN
  /\ rows_read = 0
  /\ all_transactions = <<>>
  /\ last_row = NoRow
  /\ CatIdle
  /\ DateIdle
  /\ AiIdle
  /\ BankIdle
  /\ HeadersIdle
  /\ CallIdle
  /\ BookIdle
  /\ ScanIdle

\* A row loop without the try around its body: a row whose number is
\* malformed ends the sheet loop.
ProcessRow_aborts_on_error ==
  /\ pc = "rows"
  /\ last_row = NoRow
  /\ rows_read < MaxRows
  /\ \E date_cell \in DateCells, description_cell \in DescriptionCells,
        debit_cell \in (IF amount_col THEN {NoneCell} ELSE DebitCells),
        credit_cell \in (IF amount_col THEN {NoneCell} ELSE CreditCells),
        amount_cell \in (IF amount_col THEN AmountCells ELSE {NoneCell}) :
       LET r == RowStep(date_cell, description_cell, debit_cell, credit_cell, amount_cell,
                        Len(all_transactions))
       IN  /\ all_transactions' = all_transactions \o r.tx
           /\ pc' = IF r.outcome = "bad number" THEN "failed" ELSE pc
           /\ last_row' = [ outcome |-> r.outcome, source |-> r.source,
                            date_cell |-> date_cell, description_cell |-> description_cell,
                            debit_cell |-> debit_cell, credit_cell |-> credit_cell,
                            amount_cell |-> amount_cell ]
  /\ rows_read' = rows_read + 1
  /\ UNCHANGED << amount_col, exceptRows >>

\* The body of the row loop: the cells of the next row are read and the row
\* is skipped or becomes a transaction.  (The cells the column map does not
\* lead the amount extraction to are left blank.)
ProcessRow ==
  /\ pc = "rows"
  /\ last_row = NoRow
  /\ rows_read < MaxRows
  /\ \E date_cell \in DateCells, description_cell \in DescriptionCells,
        debit_cell \in (IF amount_col THEN {NoneCell} ELSE DebitCells),
        credit_cell \in (IF amount_col THEN {NoneCell} ELSE CreditCells),
        amount_cell \in (IF amount_col THEN AmountCells ELSE {NoneCell}) :
       LET r == RowStep(date_cell, description_cell, debit_cell, credit_cell, amount_cell,
                        Len(all_transactions))
       IN  /\ all_transactions' = all_transactions \o r.tx
           /\ last_row' = [ outcome |-> r.outcome, source |-> r.source,
                            date_cell |-> date_cell, description_cell |-> description_cell,
                            debit_cell |-> debit_cell, credit_cell |-> credit_cell,
                            amount_cell |-> amount_cell ]
  /\ rows_read' = rows_read + 1
  /\ UNCHANGED << pc, amount_col, exceptRows >>

\* The loop moves on to the row after the one just visited.
NextRow ==
  /\ pc = "rows"
  /\ last_row # NoRow
  /\ last_row' = NoRow
  /\ UNCHANGED << pc, amount_col, rows_read, all_transactions, exceptRows >>

\* The row loop ends at the sheet's last row: the transactions are ready to
\* be handed to ai_categorize_transactions.
EndOfSheet ==
  /\ pc = "rows"
  /\ last_row = NoRow
  /\ pc' = "categorize"
  /\ UNCHANGED << amount_col, rows_read, all_transactions, last_row, exceptRows >>

XlsNext == ProcessRow \/ NextRow \/ EndOfSheet

SpecExcel == XlsInit /\ [][XlsNext]_vars

-----------------------------------------------------------------------------
(* ai_categorize_transactions of both processors on bounded lists and      *)
(* bounded classifier behaviours                                           *)

\* JSON values as json.loads returns them: strings, numbers and null are the
\* cell values above, arrays and objects are these
Array(items) == [t |-> "list", items |-> items]

Object(size) == [t |-> "dict", size |-> size]

\* what the classifier call does: it raises, or it returns a text, which is
\* a body inside a code fence ("json" for ```json, "bare" for ```, "none"
\* for no fence); the body is the text of a JSON value or is not JSON
ClassifierRaises == [kind |-> "raises"]

NotJson == [json |-> FALSE]

JsonText(value) == [json |-> TRUE, value |-> value]

ResponseText(fence, body) == [kind |-> "text", fence |-> fence, body |-> body]

\* the fence removal of each processor followed by json.loads:
\* [ok |-> FALSE] stands for the JSONDecodeError
json_loads(proc, response) ==
  LET stripped == IF proc = "xls" THEN TRUE ELSE response.fence # "bare"
  IN  IF stripped /\ response.body.json
      THEN [ok |-> TRUE, value |-> response.body.value]
      ELSE [ok |-> FALSE, value |-> NoneCell]

\* len(v) is defined
HasLen(v) == v.t \in {"list", "str", "dict"}

PyLen(v) ==
  CASE v.t = "list" -> Len(v.items)
    [] v.t = "str"  -> Len(v.s)
    [] v.t = "dict" -> v.size

\* v[idx] is defined for the integer idx < len(v) (an object has string keys)
HasItem(v) == v.t \in {"list", "str"}

\* the items taken from the end of the array
PyItem_from_end(v, idx) ==
  CASE v.t = "list" -> v.items[Len(v.items) - idx]
    [] v.t = "str"  -> StrCell(<< v.s[Len(v.s) - idx] >>)

PyItem(v, idx) ==
  CASE v.t = "list" -> v.items[idx + 1]
    [] v.t = "str"  -> StrCell(<< v.s[idx + 1] >>)

batch_size == 50

prompt_limit == 30

\* a batch that runs to the end of the list
Batch_to_end(i, n) == [k \in 1..(n - i) |-> i + k]

\* transactions[i:i + batch_size], as positions in the list
Batch(i, n) == [k \in 1..(Min(i + batch_size, n) - i) |-> i + k]

\* descriptions[:30]: the numbered descriptions the prompt carries
PromptDescriptions(objects, i, batch) ==
  [k \in 1..Min(prompt_limit, Len(batch)) |->
     NatStr(i + k - 1) \o <<".", " ">> \o objects[batch[k]].Description]

\* pass idx of the apply loop raises: len() of a value without length,
\* the subscript of an object, or .split of an item that is not a string
ApplyRaisesAt(ai_categories, idx) ==
  \/ ~HasLen(ai_categories)
  \/ /\ idx < PyLen(ai_categories)
     /\ ~HasItem(ai_categories) \/ PyItem(ai_categories, idx).t # "str"

\* The loop that applies the parsed response to the batch.  It runs its
\* passes idx = 0, 1, ... up to the first pass that raises (stop); the dicts
\* are changed in place, so what was changed before a raise stays changed
\* and what was appended stays appended: a pass before stop with an item
\* sets Category and Subcategory and appends, the pass that raises on
\* .split has already set Category.
ApplyCategories(objects, batch, ai_categories) ==
  LET failing == { idx \in 0..(Len(batch) - 1) : ApplyRaisesAt(ai_categories, idx) }
      stop == IF failing = {} THEN Len(batch)
              ELSE CHOOSE idx \in failing : \A other \in failing : idx <= other
      first == IF batch = <<>> THEN 0 ELSE batch[1]
      Pass(tx) == tx - first
      InBatch(tx) == Pass(tx) \in 0..(Len(batch) - 1)
  IN  [ raised |-> failing # {},
        objects |->
          [ tx \in 1..Len(objects) |->
              IF InBatch(tx) /\ Pass(tx) < stop /\ Pass(tx) < PyLen(ai_categories)
                THEN [objects[tx] EXCEPT !.Category = PyItem(ai_categories, Pass(tx)),
                                         !.Subcategory = FirstWord(PyItem(ai_categories, Pass(tx)).s)]
              ELSE IF /\ InBatch(tx) /\ Pass(tx) = stop
                      /\ HasLen(ai_categories) /\ HasItem(ai_categories)
                THEN [objects[tx] EXCEPT !.Category = PyItem(ai_categories, Pass(tx))]
              ELSE objects[tx] ],
        appended |-> SubSeq(batch, 1, stop) ]

\* the loop body with an except branch that lets the failed batch go
BatchStep_drops_failed(proc, objects, batch, response) ==
  LET dropped == [raised |-> FALSE, objects |-> objects, appended |-> <<>>]
      parsed == json_loads(proc, response)
  IN  IF response.kind = "raises" THEN dropped
      ELSE IF ~parsed.ok THEN dropped
      ELSE ApplyCategories(objects, batch, parsed.value)

\* the body of the batch loop for one batch and one classifier behaviour
BatchStep(proc, objects, batch, response) ==
  LET unchanged == [raised |-> TRUE, objects |-> objects, appended |-> <<>>]
      parsed == json_loads(proc, response)
  IN  IF response.kind = "raises" THEN unchanged
      ELSE IF ~parsed.ok THEN unchanged
      ELSE ApplyCategories(objects, batch, parsed.value)

\* the lists handed to the batcher hold up to MaxTransactions transactions:
\* one more than a full batch, so that a second batch exists
MaxTransactions == 51

ListLengths == { 0, 1, 2, MaxTransactions }

\* the descriptions of the input transactions, taken in turn
InputDescriptions ==
  << <<"C","a","r","r","e","f","o","u","r"," ","M","a","l","l">>,
     <<"A","T","M"," ","C","a","s","h">>,
     <<"L","o","a","n">> >>

\* the list a processor hands to its batcher: transactions as the processor
\* builds them, categorized by its rule-based categorizer
InputTransactions(proc, n) ==
  [ k \in 1..n |->
      LET text == InputDescriptions[((k - 1) % Len(InputDescriptions)) + 1]
      IN  MakeTransaction(<<"2","0","2","4","-","0","1","-","1","5">>, FloatCell(-100 * k), text,
                          IF proc = "xls" THEN Xls_categorize_transaction(text)
                          ELSE Pdf_categorize_transaction(text)) ]

\* a label the closed category set does not hold
Groceries == <<"G","r","o","c","e","r","i","e","s">>

\* the arrays of strings a response can carry: the labels taken in turn
ReplyLabels == { << FoodDining, Income, Travel >>, << OtherExpenses >>, << Groceries >> }

LabelArray(labels, n) == Array([ k \in 1..n |-> StrCell(labels[((k - 1) % Len(labels)) + 1]) ])

\* the same with one item that is not a string
ArrayWithItem(labels, n, j, item) ==
  Array([ k \in 1..n |-> IF k = j THEN item ELSE StrCell(labels[((k - 1) % Len(labels)) + 1]) ])

\* the JSON values a response to a batch of the given length can carry:
\* arrays shorter than, as long as and longer than the batch, arrays with a
\* number or null among the labels, and values that are not arrays
JsonValues(length) ==
  { LabelArray(labels, n) : labels \in ReplyLabels, n \in {0, 1, length - 1, length, length + 1} \cap Nat }
    \cup { ArrayWithItem(<< FoodDining, Income, Travel >>, length, j, item) :
             j \in {1, 2, length} \cap (1..length), item \in { IntCell(5), NoneCell } }
    \cup { StrCell(Income), Object(0), Object(2), IntCell(7), NoneCell }

Fences == { "none", "json", "bare" }

ClassifierBehaviours(length) ==
  { ClassifierRaises }
    \cup { ResponseText(fence, body) :
             fence \in Fences, body \in { NotJson } \cup { JsonText(v) : v \in JsonValues(length) } }

\* the positions 1..n: the list `transactions` itself
Positions(n) == [ k \in 1..n |-> k ]

AiInit ==
  /\ now = DateTimeCell(2026, 10, 31)
  /\ CatIdle
  /\ DateIdle
  /\ pc = "categorize"
  /\ amount_col = FALSE
  /\ rows_read = 0
  /\ last_row = NoRow
  /\ api_key \in BOOLEAN
  /\ processor \in { "xls", "pdf" }
  /\ \E n \in ListLengths : all_transactions = InputTransactions(processor, n)
  /\ before = all_transactions
  /\ batch_start = 0
  /\ categorized_transactions = <<>>
  /\ calls = <<>>
  /\ result = <<>>
  /\ BankIdle
  /\ HeadersIdle
  /\ CallIdle
  /\ BookIdle
  /\ ScanIdle

\* No key is configured or the list is empty: the list is returned as it is.
ReturnInput ==
  /\ pc = "categorize"
  /\ ~api_key \/ all_transactions = <<>>
  /\ result' = Positions(Len(all_transactions))
  /\ pc' = "returned"
  /\ UNCHANGED << all_transactions, api_key, processor, before, batch_start,
                  categorized_transactions, calls, exceptAi >>

\* One pass of the batch loop: the classifier is called with the batch's
\* prompt, and its response is applied to the batch or, on any exception,
\* the batch is appended to the list built so far.
CategorizeBatch ==
  /\ pc = "categorize"
  /\ api_key /\ all_transactions # <<>>
  /\ batch_start < Len(all_transactions)
  /\ LET batch == Batch(batch_start, Len(all_transactions))
     IN  \E response \in ClassifierBehaviours(Len(batch)) :
           LET step == BatchStep(processor, all_transactions, batch, response)
           IN  /\ all_transactions' = step.objects
               /\ categorized_transactions' =
                    categorized_transactions \o step.appended \o (IF step.raised THEN batch ELSE <<>>)
               /\ calls' = Append(calls,
                    [ start |-> batch_start,
                      descriptions |-> PromptDescriptions(all_transactions, batch_start, batch),
                      response |-> response,
                      ended |-> IF step.raised THEN "error" ELSE "applied" ])
  /\ batch_start' = batch_start + batch_size
  /\ UNCHANGED << pc, api_key, processor, before, result, exceptAi >>

\* The batch loop is over: the list built is returned.
ReturnCategorized ==
  /\ pc = "categorize"
  /\ api_key /\ all_transactions # <<>>
  /\ batch_start >= Len(all_transactions)
  /\ result' = categorized_transactions
  /\ pc' = "returned"
  /\ UNCHANGED << all_transactions, api_key, processor, before, batch_start,
                  categorized_transactions, calls, exceptAi >>

AiNext == ReturnInput \/ CategorizeBatch \/ ReturnCategorized

SpecAI == AiInit /\ [][AiNext]_vars

\* The batch loop is a for loop over a finite list and the classifier call
\* is a blocking call that returns or raises: a call of the batcher that
\* can take a step takes it.
SpecAILive == SpecAI /\ WF_vars(AiNext)

\* the transactions of the returned list, as they are at the return
Returned == [ j \in 1..Len(result) |-> all_transactions[result[j]] ]

-----------------------------------------------------------------------------
(* The bank registry of the upload service                                 *)

\* GLOBAL_BANK_CONFIG, in the order of the dict
GLOBAL_BANK_CONFIG ==
  << [ key |-> <<"a","b","u"," ","d","h","a","b","i"," ","c","o","m","m","e","r","c","i","a","l"," ","b","a","n","k">>,
       country |-> <<"U","A","E">>, currency |-> <<"A","E","D">>, code |-> <<"A","D","C","B">> ],
     [ key |-> <<"a","d","c","b">>,
       country |-> <<"U","A","E">>, currency |-> <<"A","E","D">>, code |-> <<"A","D","C","B">> ],
     [ key |-> <<"f","i","r","s","t"," ","a","b","u"," ","d","h","a","b","i"," ","b","a","n","k">>,
       country |-> <<"U","A","E">>, currency |-> <<"A","E","D">>, code |-> <<"F","A","B">> ],
     [ key |-> <<"f","a","b">>,
       country |-> <<"U","A","E">>, currency |-> <<"A","E","D">>, code |-> <<"F","A","B">> ],
     [ key |-> <<"e","m","i","r","a","t","e","s"," ","n","b","d">>,
       country |-> <<"U","A","E">>, currency |-> <<"A","E","D">>, code |-> <<"E","N","B","D">> ],
     [ key |-> <<"e","n","b","d">>,
       country |-> <<"U","A","E">>, currency |-> <<"A","E","D">>, code |-> <<"E","N","B","D">> ],
     [ key |-> <<"m","a","s","h","r","e","q"," ","b","a","n","k">>,
       country |-> <<"U","A","E">>, currency |-> <<"A","E","D">>, code |-> <<"M","A","S","H","R","E","Q">> ],
     [ key |-> <<"m","a","s","h","r","e","q">>,
       country |-> <<"U","A","E">>, currency |-> <<"A","E","D">>, code |-> <<"M","A","S","H","R","E","Q">> ],
     [ key |-> <<"c","o","m","m","e","r","c","i","a","l"," ","b","a","n","k"," ","o","f"," ","d","u","b","a","i">>,
       country |-> <<"U","A","E">>, currency |-> <<"A","E","D">>, code |-> <<"C","B","D">> ],
     [ key |-> <<"c","b","d">>,
       country |-> <<"U","A","E">>, currency |-> <<"A","E","D">>, code |-> <<"C","B","D">> ],
     [ key |-> <<"h","s","b","c"," ","u","a","e">>,
       country |-> <<"U","A","E">>, currency |-> <<"A","E","D">>, code |-> <<"H","S","B","C">> ],
     [ key |-> <<"h","s","b","c"," ","m","i","d","d","l","e"," ","e","a","s","t">>,
       country |-> <<"U","A","E">>, currency |-> <<"A","E","D">>, code |-> <<"H","S","B","C">> ],
     [ key |-> <<"a","b","u"," ","d","h","a","b","i"," ","i","s","l","a","m","i","c"," ","b","a","n","k">>,
       country |-> <<"U","A","E">>, currency |-> <<"A","E","D">>, code |-> <<"A","D","I","B">> ],
     [ key |-> <<"a","d","i","b">>,
       country |-> <<"U","A","E">>, currency |-> <<"A","E","D">>, code |-> <<"A","D","I","B">> ],
     [ key |-> <<"b","a","n","k"," ","o","f"," ","a","m","e","r","i","c","a">>,
       country |-> <<"U","S","A">>, currency |-> <<"U","S","D">>, code |-> <<"B","O","A">> ],
     [ key |-> <<"c","h","a","s","e"," ","b","a","n","k">>,
       country |-> <<"U","S","A">>, currency |-> <<"U","S","D">>, code |-> <<"C","H","A","S","E">> ],
     [ key |-> <<"w","e","l","l","s"," ","f","a","r","g","o">>,
       country |-> <<"U","S","A">>, currency |-> <<"U","S","D">>, code |-> <<"W","F">> ],
     [ key |-> <<"c","i","t","i","b","a","n","k">>,
       country |-> <<"U","S","A">>, currency |-> <<"U","S","D">>, code |-> <<"C","I","T","I">> ],
     [ key |-> <<"b","a","r","c","l","a","y","s">>,
       country |-> <<"U","K">>, currency |-> <<"G","B","P">>, code |-> <<"B","A","R","C","L","A","Y","S">> ],
     [ key |-> <<"l","l","o","y","d","s">>,
       country |-> <<"U","K">>, currency |-> <<"G","B","P">>, code |-> <<"L","L","O","Y","D","S">> ],
     [ key |-> <<"h","s","b","c"," ","u","k">>,
       country |-> <<"U","K">>, currency |-> <<"G","B","P">>, code |-> <<"H","S","B","C">> ],
     [ key |-> <<"s","t","a","t","e"," ","b","a","n","k"," ","o","f"," ","i","n","d","i","a">>,
       country |-> <<"I","n","d","i","a">>, currency |-> <<"I","N","R">>, code |-> <<"S","B","I">> ],
     [ key |-> <<"h","d","f","c"," ","b","a","n","k">>,
       country |-> <<"I","n","d","i","a">>, currency |-> <<"I","N","R">>, code |-> <<"H","D","F","C">> ],
     [ key |-> <<"i","c","i","c","i"," ","b","a","n","k">>,
       country |-> <<"I","n","d","i","a">>, currency |-> <<"I","N","R">>, code |-> <<"I","C","I","C","I">> ],
     [ key |-> <<"d","e","u","t","s","c","h","e"," ","b","a","n","k">>,
       country |-> <<"G","e","r","m","a","n","y">>, currency |-> <<"E","U","R">>, code |-> <<"D","B">> ],
     [ key |-> <<"b","n","p"," ","p","a","r","i","b","a","s">>,
       country |-> <<"F","r","a","n","c","e">>, currency |-> <<"E","U","R">>, code |-> <<"B","N","P">> ],
     [ key |-> <<"i","n","g"," ","b","a","n","k">>,
       country |-> <<"N","e","t","h","e","r","l","a","n","d","s">>, currency |-> <<"E","U","R">>, code |-> <<"I","N","G">> ] >>

RECURSIVE detect_bank_and_currency_from(_, _)
detect_bank_and_currency_from(text_lower, i) ==
  IF i > Len(GLOBAL_BANK_CONFIG)
    THEN [ bank_name |-> UnknownBank, country |-> <<"U","n","k","n","o","w","n">>,
           currency |-> <<"U","S","D">>, bank_code |-> <<"U","N","K","N","O","W","N">> ]
  ELSE IF Contains(text_lower, GLOBAL_BANK_CONFIG[i].key)
    THEN [ bank_name |-> title(GLOBAL_BANK_CONFIG[i].key), country |-> GLOBAL_BANK_CONFIG[i].country,
           currency |-> GLOBAL_BANK_CONFIG[i].currency, bank_code |-> GLOBAL_BANK_CONFIG[i].code ]
  ELSE detect_bank_and_currency_from(text_lower, i + 1)

\* detect_bank_and_currency of the upload service
detect_bank_and_currency(text) == detect_bank_and_currency_from(lower(text), 1)


\* bank_info.update(...) of upload_file: the three keys are set from the
\* registry's answer for the bank name, the other keys are kept
EnrichedBankInfo(info) ==
  LET bank_detection == detect_bank_and_currency(info.bank_name)
  IN  [ bank_name |-> info.bank_name,
        account_holder |-> info.account_holder,
        account_number |-> info.account_number,
        currency |-> bank_detection.currency,
        country |-> bank_detection.country,
        bank_code |-> bank_detection.bank_code ]

-----------------------------------------------------------------------------
(* The 'Account Info' loop of process_excel_file and the header scan of    *)
(* extract_bank_info on bounded cells                                      *)

MaxInfoCells == 2

InfoFieldCells ==
  { NoneCell,
    StrCell(<<"A","c","c","o","u","n","t"," ","H","o","l","d","e","r">>),
    StrCell(<<"A","c","c","o","u","n","t"," ","N","u","m","b","e","r">>),
    StrCell(<<"B","a","n","k"," ","N","a","m","e">>),
    StrCell(<<"B","r","a","n","c","h">>) }

InfoValueCells ==
  { NoneCell,
    StrCell(<<"M","r"," ","J","o","h","n"," ","S","m","i","t","h">>),
    StrCell(<<"1","2","3","4","5","6","7","8","9","0","1","2","3">>),
    IntCell(1234567890),
    StrCell(<<"1","2","3","4","5">>),
    StrCell(<<"E","m","i","r","a","t","e","s"," ","N","B","D">>),
    StrCell(<<"C","h","a","s","e">>),
    StrCell(<<"A","D","C","B">>),
    StrCell(<<"F","i","r","s","t"," ","A","b","u"," ","D","h","a","b","i"," ","B","a","n","k">>),
    StrCell(<<"M","a","s","h","r","e","q">>),
    StrCell(<<"C","o","m","m","e","r","c","i","a","l"," ","B","a","n","k"," ","o","f"," ","D","u","b","a","i">>),
    StrCell(<<"H","S","B","C">>),
    StrCell(<<"R","A","K"," ","B","a","n","k">>),
    StrCell(<<"A","D","I","B">>),
    StrCell(<<"B","a","n","k"," ","o","f"," ","A","m","e","r","i","c","a">>),
    StrCell(<<"W","e","l","l","s"," ","F","a","r","g","o">>),
    StrCell(<<"C","i","t","i","b","a","n","k">>),
    StrCell(<<"A","c","m","e"," ","B","a","n","k">>) }

ScannedCells ==
  { NoneCell,
    StrCell(<<"M","r"," ","J","o","h","n"," ","S","m","i","t","h">>),
    StrCell(<<"1","2","3","4","5","6","7","8","9","0","1","2","3">>),
    StrCell(<<"1","2","3","4","-","5","6","7","8","-","9","0","1","2","-","3","4","5","6">>),
    StrCell(<<"1","2","-","3","4","5","6","7","8","9","0","1","2">>),
    IntCell(1234567890),
    StrCell(<<"1","2","3","4","5">>),
    StrCell(<<"E","m","i","r","a","t","e","s"," ","N","B","D">>),
    StrCell(<<"S","t","a","t","e","m","e","n","t"," ","o","f"," ","A","c","c","o","u","n","t">>) }

BankInit ==
  /\ now = DateTimeCell(2026, 10, 31)
  /\ CatIdle
  /\ DateIdle
  /\ AiIdle
  /\ amount_col = FALSE
  /\ rows_read = 0
  /\ all_transactions = <<>>
  /\ last_row = NoRow
  /\ pc \in { "account info", "header scan" }
  /\ bank_info = IF pc = "account info" THEN default_bank_info ELSE scan_bank_info
  /\ cells_read = 0
  /\ last_cell = NoCell
  /\ HeadersIdle
  /\ CallIdle
  /\ BookIdle
  /\ ScanIdle

\* One row of the 'Account Info' sheet is read.
ReadInfoRow ==
  /\ pc = "account info"
  /\ cells_read < MaxInfoCells
  /\ \E field_cell \in InfoFieldCells, value_cell \in InfoValueCells :
       /\ bank_info' = InfoRowStep(bank_info, field_cell, value_cell)
       /\ last_cell' = [field |-> field_cell, value |-> value_cell]
  /\ cells_read' = cells_read + 1
  /\ UNCHANGED << pc, exceptBank >>

\* The sheet has no further row: bank_info is the one the statement's
\* result will carry.
EndOfInfoSheet ==
  /\ pc = "account info"
  /\ pc' = "bank info ready"
  /\ UNCHANGED << bankVars, exceptBank >>

\* One cell of the scanned rows and columns is read.
ScanCell ==
  /\ pc = "header scan"
  /\ cells_read < MaxInfoCells
  /\ \E cell \in ScannedCells :
       /\ bank_info' = ScanCellStep(bank_info, cell)
       /\ last_cell' = [field |-> NoneCell, value |-> cell]
  /\ cells_read' = cells_read + 1
  /\ UNCHANGED << pc, exceptBank >>

\* The scan is over: extract_bank_info returns bank_info.
EndOfScan ==
  /\ pc = "header scan"
  /\ pc' = "bank info returned"
  /\ UNCHANGED << bankVars, exceptBank >>

\* upload_file, once process_excel_file has returned its result: the
\* registry is asked about the bank name of the result's bank_info, and
\* bank_info is updated with its answer.
EnrichBankInfo ==
  /\ pc = "bank info ready"
  /\ bank_info' = EnrichedBankInfo(bank_info)
  /\ pc' = "uploaded"
  /\ UNCHANGED << cells_read, last_cell, exceptBank >>

BankNext == ReadInfoRow \/ EndOfInfoSheet \/ ScanCell \/ EndOfScan \/ EnrichBankInfo

SpecBank == BankInit /\ [][BankNext]_vars

-----------------------------------------------------------------------------
(* find_data_headers on a sheet of bounded size                            *)

\* the sheets have at most MaxSheetRows rows and MaxColumns columns
MaxSheetRows == 21

MaxColumns == 10

\* the rows a sheet is made of (cells from column 1 on; the cells to the
\* right of them are empty)
SheetRows ==
  { <<>>,
    << StrCell(<<"E","m","i","r","a","t","e","s"," ","N","B","D">>), IntCell(2024) >>,
    << StrCell(<<"S","t","a","t","e","m","e","n","t"," ","D","a","t","e">>), NoneCell, StrCell(<<"C","l","o","s","i","n","g"," ","B","a","l","a","n","c","e">>) >>,
    << StrCell(<<"D","a","t","e">>), StrCell(<<"A","m","o","u","n","t">>), StrCell(<<"D","e","s","c","r","i","p","t","i","o","n">>), StrCell(<<"D","e","b","i","t">>), StrCell(<<"C","r","e","d","i","t">>) >>,
    << StrCell(<<"D","a","t","e">>), StrCell(<<"D","e","s","c","r","i","p","t","i","o","n">>), NoneCell, StrCell(<<"D","e","b","i","t">>), StrCell(<<"C","r","e","d","i","t">>) >>,
    << StrCell(<<"D","a","t","e">>), StrCell(<<"V","a","l","u","e"," ","D","a","t","e">>), StrCell(<<"P","a","r","t","i","c","u","l","a","r","s">>), StrCell(<<"D","e","b","i","t"," ","A","m","o","u","n","t">>), StrCell(<<"C","r","e","d","i","t"," ","A","m","o","u","n","t">>), StrCell(<<"B","a","l","a","n","c","e">>) >>,
    << NoneCell, NoneCell, NoneCell, NoneCell, NoneCell, NoneCell, NoneCell, StrCell(<<"D","a","t","e">>), StrCell(<<"D","e","b","i","t">>), StrCell(<<"C","r","e","d","i","t">>) >>,
    << StrCell(<<"T","y","p","e">>), StrCell(<<"R","e","f","e","r","e","n","c","e">>), StrCell(<<"B","a","l","a","n","c","e">>) >> }

\* the row as worksheet.cell reads it on a sheet of the given width
RowOfWidth(cells, width) ==
  [col \in 1..width |-> IF col <= Len(cells) THEN cells[col] ELSE NoneCell]

\* the row of the example: "Date", "Amount", "Description", "Debit", "Credit"
ExampleHeaderRow == << StrCell(<<"D","a","t","e">>), StrCell(<<"A","m","o","u","n","t">>), StrCell(<<"D","e","s","c","r","i","p","t","i","o","n">>), StrCell(<<"D","e","b","i","t">>), StrCell(<<"C","r","e","d","i","t">>) >>

HeadersInit ==
  /\ pc = "scan"
  /\ max_row \in 1..MaxSheetRows
  /\ max_column \in 1..MaxColumns
  /\ row = 0
  /\ row_cells = <<>>
  /\ column_map = NoMap
  /\ now = DateTimeCell(2026, 10, 31)
  /\ all_transactions = <<>>
  /\ amount_col = FALSE
  /\ rows_read = 0
  /\ last_row = NoRow
  /\ CatIdle
  /\ DateIdle
  /\ AiIdle
  /\ BankIdle
  /\ CallIdle
  /\ BookIdle
  /\ ScanIdle

\* One pass of the loop over the rows: the cells of the next row are read;
\* a row with header_threshold header cells or more ends the search.
ScanHeaderRow ==
  /\ pc = "scan"
  /\ row + 1 < Min(row_scan_limit, max_row + 1)
  /\ \E cells \in SheetRows :
       LET read == RowOfWidth(cells, max_column)
           scanned == ScanColumns(read, Cardinality(ScannedColumns(max_column)))
       IN  /\ row' = row + 1
           /\ row_cells' = read
           /\ IF scanned.header_count >= header_threshold
                THEN /\ column_map' = ("header_row" :> (row + 1)) @@ scanned.row_data
                     /\ pc' = "found"
                ELSE /\ column_map' = column_map
                     /\ pc' = pc
  /\ UNCHANGED << max_row, max_column, exceptHeaders >>

\* The loop over the rows ends without a header row: the default mapping.
NoHeaderRow ==
  /\ pc = "scan"
  /\ ~(row + 1 < Min(row_scan_limit, max_row + 1))
  /\ column_map' = default_column_map
  /\ pc' = "default"
  /\ UNCHANGED << max_row, max_column, row, row_cells, exceptHeaders >>

HeadersNext == ScanHeaderRow \/ NoHeaderRow

SpecHeaders == HeadersInit /\ [][HeadersNext]_vars

-----------------------------------------------------------------------------
(* The line scanner of fallback_extraction: one line, and the dict         *)
(* returned                                                                *)

\* s[from], ..., s[from + n - 1] exist and are digits
DigitsAt(s, from, n) ==
  /\ from + n - 1 <= Len(s)
  /\ \A i \in from..(from + n - 1) : IsDigit(s[i])

\* t comes before u, or is u, in the order a backtracking matcher tries the
\* repetition counts of greedy quantifiers: larger counts first, the
\* leftmost quantifier deciding
RECURSIVE TriedBefore(_, _, _)
TriedBefore(t, u, i) ==
  IF i > Len(t) THEN TRUE
  ELSE IF t[i] # u[i] THEN t[i] > u[i]
  ELSE TriedBefore(t, u, i + 1)

FirstTried(shapes) == CHOOSE t \in shapes : \A u \in shapes : TriedBefore(t, u, 1)

NotFound == [found |-> FALSE]

Match(s, from, to) == [found |-> TRUE, from |-> from, to |-> to, text |-> SubSeq(s, from, to)]

\* the two date_patterns of fallback_extraction: \d{1,2}[/-]\d{1,2}[/-]\d{2,4} and
\* \d{4}[/-]\d{1,2}[/-]\d{1,2}, as the digit counts of the three fields
date_separators == { "/", "-" }

fallback_date_patterns ==
  << [first |-> 1..2, middle |-> 1..2, last |-> 2..4],
     [first |-> {4}, middle |-> 1..2, last |-> 1..2] >>

\* the digit counts with which a date pattern matches s at position p
DateShapesAt(s, p, pattern) ==
  { t \in pattern.first \X pattern.middle \X pattern.last :
      /\ DigitsAt(s, p, t[1])
      /\ p + t[1] <= Len(s) /\ s[p + t[1]] \in date_separators
      /\ DigitsAt(s, p + t[1] + 1, t[2])
      /\ p + t[1] + 1 + t[2] <= Len(s) /\ s[p + t[1] + 1 + t[2]] \in date_separators
      /\ DigitsAt(s, p + t[1] + t[2] + 2, t[3]) }

\* re.search(pattern, line) for a date pattern: the leftmost match
DateSearch(s, pattern) ==
  LET starts == { p \in 1..Len(s) : DateShapesAt(s, p, pattern) # {} }
  IN  IF starts = {} THEN NotFound
      ELSE LET p == CHOOSE q \in starts : \A o \in starts : q <= o
               t == FirstTried(DateShapesAt(s, p, pattern))
           IN  Match(s, p, p + t[1] + t[2] + t[3] + 1)

\* how many digits s carries in a row from position `from` on
RECURSIVE DigitRunAt(_, _)
DigitRunAt(s, from) ==
  IF from <= Len(s) /\ IsDigit(s[from]) THEN 1 + DigitRunAt(s, from + 1) ELSE 0

\* the ways [\-]?\d+[,.]?\d*\.?\d{2} matches s at position p: the count of
\* \d+, whether [,.]? takes a character, the count of \d*, whether \.?
\* takes a point (\d+ takes digits of the run at p, \d* digits of that run
\* or of the run after the character that ends it)
AmountShapesAt(s, p) ==
  LET q == IF s[p] = "-" THEN p + 1 ELSE p
      run == DigitRunAt(s, q)
      after == DigitRunAt(s, q + run + 1)
  IN  { t \in (1..run) \X {0, 1} \X (0..(IF run > after THEN run ELSE after)) \X {0, 1} :
          /\ DigitsAt(s, q, t[1])
          /\ t[2] = 1 => (q + t[1] <= Len(s) /\ s[q + t[1]] \in { ",", "." })
          /\ DigitsAt(s, q + t[1] + t[2], t[3])
          /\ t[4] = 1 => (q + t[1] + t[2] + t[3] <= Len(s) /\ s[q + t[1] + t[2] + t[3]] = ".")
          /\ DigitsAt(s, q + t[1] + t[2] + t[3] + t[4], 2) }

\* re.search(r'[\-]?\d+[,.]?\d*\.?\d{2}', line)
AmountSearch(s) ==
  LET starts == { p \in 1..Len(s) : AmountShapesAt(s, p) # {} }
  IN  IF starts = {} THEN NotFound
      ELSE LET p == CHOOSE q \in starts : \A o \in starts : q <= o
               t == FirstTried(AmountShapesAt(s, p))
               q == IF s[p] = "-" THEN p + 1 ELSE p
           IN  Match(s, p, q + t[1] + t[2] + t[3] + t[4] + 1)

\* re.sub(r'[\d/\-,.\s]+', ' ', line): every run of digits, slashes,
\* hyphens, commas, points and blanks becomes one blank
IsFiller(c) == IsDigit(c) \/ c \in { "/", "-", ",", ".", " " }

RECURSIVE SkipFiller(_)
SkipFiller(s) == IF s # <<>> /\ IsFiller(Head(s)) THEN SkipFiller(Tail(s)) ELSE s

RECURSIVE SubFiller(_)
SubFiller(s) ==
  IF s = <<>> THEN <<>>
  ELSE IF IsFiller(Head(s)) THEN <<" ">> \o SubFiller(SkipFiller(s))
  ELSE << Head(s) >> \o SubFiller(Tail(s))

\* the three fields of a text a date pattern matched, and its separators
DateFields(date_str) ==
  LET k1 == CHOOSE i \in 1..Len(date_str) :
              date_str[i] \in date_separators /\ \A j \in 1..(i - 1) : IsDigit(date_str[j])
      k2 == CHOOSE i \in (k1 + 1)..Len(date_str) :
              date_str[i] \in date_separators /\ \A j \in (k1 + 1)..(i - 1) : IsDigit(date_str[j])
  IN  [ fields |-> << SubSeq(date_str, 1, k1 - 1), SubSeq(date_str, k1 + 1, k2 - 1),
                      SubSeq(date_str, k2 + 1, Len(date_str)) >>,
        separators |-> << date_str[k1], date_str[k2] >> ]

\* the four patterns of normalize_date: the separator, and the places of
\* the day, the month and the year among the three fields
normalize_patterns ==
  << [separator |-> "/", d |-> 1, m |-> 2, y |-> 3],
     [separator |-> "/", d |-> 2, m |-> 1, y |-> 3],
     [separator |-> "-", d |-> 3, m |-> 2, y |-> 1],
     [separator |-> "-", d |-> 1, m |-> 2, y |-> 3] >>

\* re.match of the pattern's expression and strptime with its format both
\* succeed: the year has four digits, the day and the month one or two,
\* and they name a day of the calendar
Strptime(parts, pattern) ==
  LET f == parts.fields
      y == StrNat(f[pattern.y])
      m == StrNat(f[pattern.m])
      d == StrNat(f[pattern.d])
  IN  [ ok |-> /\ parts.separators = << pattern.separator, pattern.separator >>
               /\ Len(f[pattern.y]) = 4
               /\ Len(f[pattern.d]) \in 1..2 /\ Len(f[pattern.m]) \in 1..2
               /\ y >= 1 /\ m \in 1..12 /\ d \in 1..DaysInMonth(y, m),
        dt |-> DateTimeCell(y, m, d) ]

\* dt.strftime('%Y-%m-%d') as the C library formats it: a year below 1000
\* is written without leading zeros
strftime_unpadded_year(dt) ==
  NatStr(dt.y) \o <<"-">> \o zfill(NatStr(dt.m), 2) \o <<"-">> \o zfill(NatStr(dt.d), 2)

RECURSIVE normalize_date_from(_, _, _)
normalize_date_from(parts, i, clock) ==
  IF i > Len(normalize_patterns) THEN strftime_unpadded_year(clock)
  ELSE IF Strptime(parts, normalize_patterns[i]).ok
    THEN strftime_unpadded_year(Strptime(parts, normalize_patterns[i]).dt)
  ELSE normalize_date_from(parts, i + 1, clock)

\* normalize_date(date_str) when datetime.now() is clock
normalize_date(date_str, clock) == normalize_date_from(DateFields(date_str), 1, clock)

\* the words of a header or total line
skip_words ==
  << <<"T","O","T","A","L">>, <<"B","A","L","A","N","C","E">>,
     <<"O","P","E","N","I","N","G">>, <<"C","L","O","S","I","N","G">>,
     <<"D","A","T","E">>, <<"D","E","S","C","R","I","P","T","I","O","N">> >>

\* the first of the date patterns that is found in the line
RECURSIVE FirstDateMatch(_, _)
FirstDateMatch(s, i) ==
  IF i > Len(fallback_date_patterns) THEN NotFound
  ELSE IF DateSearch(s, fallback_date_patterns[i]).found THEN DateSearch(s, fallback_date_patterns[i])
  ELSE FirstDateMatch(s, i + 1)

\* description[:100]
description_limit == 100

\* the body of the line loop of fallback_extraction for one line: what was
\* matched, and the transaction appended if one was (float() keeps two
\* decimals here: the lines of the model carry no amount with more)
ScanLine(raw, clock) ==
  LET s == strip(raw)
      date_match == FirstDateMatch(s, 1)
      amount_match == AmountSearch(s)
      amount == PyFloat(RemoveChar(amount_match.text, ","))
      desc == strip(SubFiller(s))
  IN  IF Len(s) < 10 THEN [outcome |-> "short"]
      ELSE IF AnyIn(skip_words, upper(s)) THEN [outcome |-> "header"]
      ELSE IF ~date_match.found THEN [outcome |-> "no date"]
      ELSE IF ~amount_match.found
        THEN [outcome |-> "no amount", line |-> s, date_match |-> date_match]
      ELSE IF ~amount.ok
        THEN [outcome |-> "bad amount", line |-> s, date_match |-> date_match,
              amount_match |-> amount_match]
      ELSE IF desc = <<>>
        THEN [outcome |-> "no description", line |-> s, date_match |-> date_match,
              amount_match |-> amount_match]
      ELSE [ outcome |-> "appended", line |-> s, date_match |-> date_match,
             amount_match |-> amount_match,
             transaction |-> [ date |-> normalize_date(date_match.text, clock),
                               description |-> SubSeq(desc, 1, Min(Len(desc), description_limit)),
                               amount |-> amount.v ] ]

\* bank_patterns of the PDF processor, in the order of the dict
pdf_bank_patterns ==
  << << <<"a","b","u"," ","d","h","a","b","i"," ","c","o","m","m","e","r","c","i","a","l"," ","b","a","n","k">>, <<"a","d","c","b">> >>,
     << <<"f","i","r","s","t"," ","a","b","u"," ","d","h","a","b","i"," ","b","a","n","k">>, <<"f","a","b">> >>,
     << <<"e","m","i","r","a","t","e","s"," ","n","b","d">>, <<"e","n","b","d">> >>,
     << <<"m","a","s","h","r","e","q"," ","b","a","n","k">>, <<"m","a","s","h","r","e","q">> >>,
     << <<"c","o","m","m","e","r","c","i","a","l"," ","b","a","n","k"," ","o","f"," ","d","u","b","a","i">>, <<"c","b","d">> >>,
     << <<"h","s","b","c">> >>,
     << <<"r","a","k"," ","b","a","n","k">>, <<"r","a","k","b","a","n","k">> >>,
     << <<"a","b","u"," ","d","h","a","b","i"," ","i","s","l","a","m","i","c"," ","b","a","n","k">>, <<"a","d","i","b">> >>,
     << <<"b","a","n","k"," ","o","f"," ","a","m","e","r","i","c","a">>, <<"b","o","f","a">>, <<"b","o","a">>, <<"b"," ","o","f"," ","a">> >>,
     << <<"c","h","a","s","e">>, <<"j","p"," ","m","o","r","g","a","n"," ","c","h","a","s","e">>, <<"j","p","m","o","r","g","a","n">> >>,
     << <<"w","e","l","l","s"," ","f","a","r","g","o">>, <<"w","e","l","l","s">> >>,
     << <<"c","i","t","i","b","a","n","k">>, <<"c","i","t","i">> >>,
     << <<"b","a","r","c","l","a","y","s">> >>,
     << <<"l","l","o","y","d","s">> >>,
     << <<"s","t","a","t","e"," ","b","a","n","k"," ","o","f"," ","i","n","d","i","a">>, <<"s","b","i">> >>,
     << <<"h","d","f","c"," ","b","a","n","k">>, <<"h","d","f","c">> >>,
     << <<"i","c","i","c","i"," ","b","a","n","k">>, <<"i","c","i","c","i">> >> >>

\* the name detect_bank of the PDF processor returns for each of them
pdf_bank_names ==
  << <<"A","b","u"," ","D","h","a","b","i"," ","C","o","m","m","e","r","c","i","a","l"," ","B","a","n","k">>,
     <<"F","i","r","s","t"," ","A","b","u"," ","D","h","a","b","i"," ","B","a","n","k">>,
     <<"E","m","i","r","a","t","e","s"," ","N","B","D">>,
     <<"M","a","s","h","r","e","q"," ","B","a","n","k">>,
     <<"C","o","m","m","e","r","c","i","a","l"," ","B","a","n","k"," ","o","f"," ","D","u","b","a","i">>,
     <<"H","S","B","C"," ","B","a","n","k"," ","M","i","d","d","l","e"," ","E","a","s","t">>,
     <<"R","A","K","B","a","n","k">>,
     <<"A","b","u"," ","D","h","a","b","i"," ","I","s","l","a","m","i","c"," ","B","a","n","k">>,
     <<"B","a","n","k"," ","o","f"," ","A","m","e","r","i","c","a">>,
     <<"C","h","a","s","e"," ","B","a","n","k">>,
     <<"W","e","l","l","s"," ","F","a","r","g","o">>,
     <<"C","i","t","i","b","a","n","k">>,
     <<"B","a","r","c","l","a","y","s">>,
     <<"L","l","o","y","d","s"," ","B","a","n","k">>,
     <<"S","t","a","t","e"," ","B","a","n","k"," ","o","f"," ","I","n","d","i","a">>,
     <<"H","D","F","C"," ","B","a","n","k">>,
     <<"I","C","I","C","I"," ","B","a","n","k">> >>

RECURSIVE pdf_detect_bank_from(_, _)
pdf_detect_bank_from(text_lower, i) ==
  IF i > Len(pdf_bank_patterns) THEN UnknownBank
  ELSE IF AnyIn(pdf_bank_patterns[i], text_lower) THEN pdf_bank_names[i]
  ELSE pdf_detect_bank_from(text_lower, i + 1)

\* detect_bank of the PDF processor
pdf_detect_bank(text) == pdf_detect_bank_from(Lowered(text), 1)


\* '\n'.join(lines), which is the text split('\n') gave the lines of
RECURSIVE JoinLines(_)
JoinLines(ls) ==
  IF ls = <<>> THEN <<>>
  ELSE IF Len(ls) = 1 THEN ls[1]
  ELSE ls[1] \o << "\n" >> \o JoinLines(Tail(ls))

\* pdf_text[:2000] and transactions[:100]
bank_text_limit == 2000

fallback_limit == 100

\* the dict fallback_extraction returns
FallbackResult(bank_name, transactions) ==
  [ bank_info |-> [ bank_name |-> bank_name,
                    account_holder |-> <<"U","n","k","n","o","w","n">>,
                    account_number |-> <<"U","n","k","n","o","w","n">>,
                    currency |-> <<"U","S","D">> ],
    transactions |-> SubSeq(transactions, 1, Min(Len(transactions), fallback_limit)) ]

-----------------------------------------------------------------------------
(* Statement-level calls: process_pdf_file and process_excel_file          *)

\* the messages of the failure pairs (the text of the exception follows the
\* last two)
no_excel_message == <<"o","p","e","n","p","y","x","l"," ","n","o","t"," ","a","v","a","i","l","a","b","l","e"," ","-"," ","u","s","i","n","g"," ","d","e","m","o"," ","d","a","t","a">>

no_pdf_library_message == <<"N","o"," ","P","D","F"," ","p","r","o","c","e","s","s","i","n","g"," ","l","i","b","r","a","r","y"," ","a","v","a","i","l","a","b","l","e","."," ","I","n","s","t","a","l","l"," ","p","d","f","p","l","u","m","b","e","r",","," ","P","y","P","D","F","2",","," ","o","r"," ","P","y","M","u","P","D","F",".">>

no_text_message == <<"C","o","u","l","d"," ","n","o","t"," ","e","x","t","r","a","c","t"," ","t","e","x","t"," ","f","r","o","m"," ","P","D","F","."," ","F","i","l","e"," ","m","a","y"," ","b","e"," ","e","n","c","r","y","p","t","e","d"," ","o","r"," ","i","m","a","g","e","-","b","a","s","e","d",".">>

no_transactions_message == <<"C","o","u","l","d"," ","n","o","t"," ","e","x","t","r","a","c","t"," ","t","r","a","n","s","a","c","t","i","o","n","s"," ","f","r","o","m"," ","P","D","F","."," ","P","l","e","a","s","e"," ","c","h","e","c","k"," ","t","h","e"," ","f","i","l","e"," ","f","o","r","m","a","t",".">>

pdf_error_prefix == <<"E","r","r","o","r"," ","p","r","o","c","e","s","s","i","n","g"," ","P","D","F",":"," ">>

excel_error_prefix == <<"E","r","r","o","r"," ","p","r","o","c","e","s","s","i","n","g"," ","E","x","c","e","l"," ","f","i","l","e",":"," ">>

processing_mode_pdf == <<"A","I","-","P","o","w","e","r","e","d"," ","P","D","F"," ","P","r","o","c","e","s","s","i","n","g">>

processing_mode_excel == <<"D","y","n","a","m","i","c"," ","E","x","c","e","l"," ","P","r","o","c","e","s","s","i","n","g"," ","w","i","t","h"," ","A","I"," ","C","a","t","e","g","o","r","i","z","a","t","i","o","n">>

\* f"\n--- PAGE {n} ---\n{text}\n": text_content is kept as the sequence of
\* these pieces, the empty sequence being the empty string; a page without
\* text has the text "none"
PageChunk(page_num, text) == [page |-> page_num, text |-> text]

\* no backend raises on the document
NeverRaises == [backend |-> "none", at |-> 0]

\* the backend raises on the document: when it opens it (at = 0) or when it
\* reads page `at`
Raises(document_, backend) == document_.raises.backend = backend

Opens(document_, backend) == ~(Raises(document_, backend) /\ document_.raises.at = 0)

\* the pages the backend reads to the end
PagesRead(document_, backend) ==
  IF ~Raises(document_, backend) THEN Len(document_.pages)
  ELSE IF document_.raises.at = 0 THEN 0
  ELSE document_.raises.at - 1

\* the pdfplumber loop over pages 1..last: text is added for a page that has some
RECURSIVE PlumberText(_, _)
PlumberText(pages, last) ==
  IF last = 0 THEN <<>>
  ELSE PlumberText(pages, last - 1) \o
       (IF pages[last].text # "none" THEN << PageChunk(last, pages[last].text) >> ELSE <<>>)

\* ... and an entry of tables_data for each table of the page (a page of
\* the model has one table or none)
RECURSIVE PlumberTables(_, _)
PlumberTables(pages, last) ==
  IF last = 0 THEN <<>>
  ELSE PlumberTables(pages, last - 1) \o (IF pages[last].tables THEN << [page |-> last] >> ELSE <<>>)

\* the PyMuPDF and PyPDF2 loops over pages 1..last: a piece for every page
RECURSIVE MarkedText(_, _)
MarkedText(pages, last) ==
  IF last = 0 THEN <<>>
  ELSE MarkedText(pages, last - 1) \o << PageChunk(last, pages[last].text) >>

\* extract_text_from_pdf: the text and tables returned, the document handles
\* opened on the way and those still open at the return
extract_text_from_pdf(libraries, document_) ==
  LET pages == document_.pages
      plumber_read == PagesRead(document_, "pdfplumber")
      plumber_text == IF libraries.pdfplumber THEN PlumberText(pages, plumber_read) ELSE <<>>
      plumber_tables == IF libraries.pdfplumber THEN PlumberTables(pages, plumber_read) ELSE <<>>
      plumber_returns == /\ libraries.pdfplumber
                         /\ ~Raises(document_, "pdfplumber")
                         /\ (plumber_text # <<>> \/ plumber_tables # <<>>)
      fitz_runs == ~plumber_returns /\ libraries.pymupdf /\ plumber_text = <<>>
      fitz_text == IF fitz_runs THEN MarkedText(pages, PagesRead(document_, "fitz")) ELSE plumber_text
      fitz_returns == fitz_runs /\ ~Raises(document_, "fitz") /\ fitz_text # <<>>
      pypdf_runs == ~plumber_returns /\ ~fitz_returns /\ libraries.pypdf2 /\ fitz_text = <<>>
      pypdf_text == IF pypdf_runs THEN MarkedText(pages, PagesRead(document_, "PyPDF2")) ELSE fitz_text
  IN  [ text_content |-> pypdf_text,
        tables_data |-> plumber_tables,
        opened |-> (IF libraries.pdfplumber /\ Opens(document_, "pdfplumber") THEN { "pdfplumber" } ELSE {})
                   \cup (IF fitz_runs /\ Opens(document_, "fitz") THEN { "fitz" } ELSE {}),
        open |-> IF fitz_runs /\ Opens(document_, "fitz") /\ Raises(document_, "fitz")
                 THEN { "fitz" } ELSE {} ]

\* a request to the OpenAI API, by the extractor or by the classifier, and
\* what became of it
ApiCall(by, response) == [by |-> by, response |-> response]

\* a key the dict does not hold
Absent == [t |-> "absent"]

\* the JSON object of an extraction: its 'transactions' (a list of items,
\* each "good" or lacking its amount: "bad") and its 'bank_info', or Absent;
\* the dict of the scanner has the same shape, its items being the
\* transactions it appended
Extraction(transactions, bank_info_) ==
  [t |-> "dict", transactions |-> transactions, bank_info |-> bank_info_]

\* `not value`
Falsy(value) ==
  IF value.t = "list" THEN value.items = <<>>
  ELSE IF value.t = "dict" THEN value.transactions = Absent /\ value.bank_info = Absent
  ELSE ~Truthy(value)

\* ai_extract_transactions: None without an API key, when the call raises,
\* when its text is not JSON, and when the parsed value is not an object
\* (the log line after json.loads calls .get on it, and the AttributeError
\* is caught); the parsed object otherwise
ai_extract_transactions(key, response) ==
  IF ~key THEN NoneCell
  ELSE IF response.kind = "raises" THEN NoneCell
  ELSE IF ~response.body.json THEN NoneCell
  ELSE IF response.body.value.t # "dict" THEN NoneCell
  ELSE response.body.value

\* what the pages of the model read: nothing, a heading, a heading that
\* names a bank, a transaction line
PageText(kind) ==
  CASE kind = "none" -> <<>>
    [] kind = "heading" -> <<"S","t","a","t","e","m","e","n","t"," ","o","f"," ","a","c","c","o","u","n","t">>
    [] kind = "bank heading" -> <<"E","m","i","r","a","t","e","s"," ","N","B","D"," ","s","t","a","t","e","m","e","n","t"," ","o","f"," ","a","c","c","o","u","n","t">>
    [] kind = "line" -> <<"-","1",".","0","0"," ","1","5","/","0","1","/","2","0","2","4"," ","C","a","r","r","e","f","o","u","r"," ","M","a","l","l">>

\* pdf_text: the pieces f"\n--- PAGE {n} ---\n{text}\n" of the pages, in a row
RECURSIVE PdfText(_)
PdfText(text) ==
  IF text = <<>> THEN <<>>
  ELSE << "\n", "-", "-", "-", " ", "P", "A", "G", "E", " " >> \o NatStr(Head(text).page)
         \o << " ", "-", "-", "-", "\n" >> \o PageText(Head(text).text) \o << "\n" >>
         \o PdfText(Tail(text))

\* fallback_extraction(pdf_text) on the text of the pages, when
\* datetime.now() is clock: the bank is detected in the head of the text,
\* and the lines of the text are scanned (the items are the transactions
\* appended: their date, description and amount)
fallback_extraction_at(text, clock) ==
  LET pdf_text == PdfText(text)
      bank_name == pdf_detect_bank(SubSeq(pdf_text, 1, Min(Len(pdf_text), bank_text_limit)))
      found == SelectSeq(Split(pdf_text, "\n"), LAMBDA l : ScanLine(l, clock).outcome = "appended")
      scanned == FallbackResult(bank_name,
                                [ k \in 1..Len(found) |-> ScanLine(found[k], clock).transaction ])
  IN  Extraction(Array(scanned.transactions), scanned.bank_info)

\* a PDF has at most MaxPages pages
MaxPages == 2

\* the texts extract_text_from_pdf can return for such a PDF
PageReadings == { "none", "heading", "bank heading", "line" }

TextContents ==
  UNION { [1..n -> { PageChunk(k, reading) : k \in 1..MaxPages, reading \in PageReadings }] :
            n \in 0..MaxPages }

\* fallback_extraction on each of them (the scan of a text is computed once)
FallbackTable ==
  [ text \in TextContents |->
      [ clock \in ClockReadings |-> fallback_extraction_at(text, clock) ] @@ <<>> ] @@ <<>>

fallback_extraction(text) == FallbackTable[text][now]

\* bank_info when the extraction has none
pdf_default_bank_info ==
  [ bank_name |-> UnknownBank,
    account_holder |-> <<"A","c","c","o","u","n","t"," ","H","o","l","d","e","r">>,
    account_number |-> <<"X","X","X","X">>,
    currency |-> <<"U","S","D">> ]

\* the failure pair and the success pair
Failure(message) == [result |-> NoneCell, error |-> StrCell(message)]

Success(transactions, bank_info_, mode) ==
  [ result |-> [ t |-> "dict", transactions |-> transactions, bank_info |-> bank_info_,
                 total_rows |-> Len(transactions), processing_mode |-> mode ],
    error |-> NoneCell ]

\* the part of process_pdf_file between the text extraction and the
\* categorization, for the text and tables extracted and the behaviour of
\* the extractor: the pair it returns early, or the transactions built
\* (`'transactions' not in` raises a TypeError on a number, which leaves
\* through the outer except; a list or an object without the key leads to
\* fallback_extraction)
\* the loop over extracted_data['transactions']: an item of the scanner
\* gives the transaction of its date, amount and description, categorized
\* by categorize_transaction; of the extractor's items the "good" ones give
\* the input transactions in turn, and one without its amount is skipped
BuiltTransactions(scanned, items) ==
  IF scanned
    THEN [ k \in 1..Len(items) |->
             MakeTransaction(items[k].date, items[k].amount, items[k].description,
                             Pdf_categorize_transaction(items[k].description)) ]
    ELSE InputTransactions("pdf", Cardinality({ i \in 1..Len(items) : items[i] = "good" }))

\* what follows once extracted_data is there (scanned: it is the
\* scanner's): the early returns, the transactions built from its items
\* and the bank_info taken from it
ExtractedFrom(type_error, scanned, extracted_data) ==
  LET items == extracted_data.transactions.items
  IN  IF type_error
        THEN [returns |-> TRUE, pair |-> Failure(pdf_error_prefix), transactions |-> <<>>,
              bank_info |-> Absent]
      ELSE IF items = <<>>
        THEN [returns |-> TRUE, pair |-> Failure(no_transactions_message), transactions |-> <<>>,
              bank_info |-> Absent]
      ELSE [ returns |-> FALSE, pair |-> Absent,
             transactions |-> BuiltTransactions(scanned, items),
             bank_info |-> IF extracted_data.bank_info = Absent THEN pdf_default_bank_info
                           ELSE extracted_data.bank_info ]

\* extracted_data is the extractor's answer, or the scanner's when the
\* answer is falsy or has no 'transactions' key
ExtractedTransactions(key, text, tables, response) ==
  LET by_ai == ai_extract_transactions(key, response)
      type_error == ~Falsy(by_ai) /\ by_ai.t \in { "int", "float" }
      fall_back == \/ Falsy(by_ai)
                   \/ by_ai.t = "list"
                   \/ by_ai.t = "dict" /\ by_ai.transactions = Absent
  IN  ExtractedFrom(type_error, fall_back,
                    IF fall_back THEN fallback_extraction(text) ELSE by_ai)

\* ai_categorize_transactions on a list of one batch: the list it returns
\* (positions of the list handed to it) and the dicts after it
CategorizedList(proc, key, objects, response) ==
  LET batch == Batch(0, Len(objects))
      step == BatchStep(proc, objects, batch, response)
  IN  IF ~key THEN [objects |-> objects, list |-> batch]
      ELSE [ objects |-> step.objects,
             list |-> step.appended \o (IF step.raised THEN batch ELSE <<>>) ]

-----------------------------------------------------------------------------
(* process_pdf_file and process_excel_file on bounded documents            *)

\* the PDFs have at most MaxPages pages; an extraction lists at most MaxItems
\* items and a workbook yields at most MaxItems transactions
MaxItems == 2

\* the pages of the model: a scanned page (no text), one with a table only,
\* one with a heading, one with a heading that names a bank, one with a
\* transaction line
Pages ==
  { [text |-> "none", tables |-> FALSE], [text |-> "none", tables |-> TRUE],
    [text |-> "heading", tables |-> FALSE], [text |-> "bank heading", tables |-> FALSE],
    [text |-> "line", tables |-> FALSE] }

PageLists == UNION { [1..n -> Pages] : n \in 0..MaxPages }

\* the uploaded files: a PDF (its pages, and the backend that raises on it,
\* if one does), or a workbook (whether load_workbook reads it, whether a
\* sheet of it makes the sheet loop raise, and the transactions its rows make)
PdfDocuments ==
  { [kind |-> "pdf", pages |-> pages, raises |-> raises] :
      pages \in PageLists,
      raises \in { NeverRaises } \cup
                 { [backend |-> b, at |-> k] : b \in { "pdfplumber", "fitz", "PyPDF2" }, k \in 0..MaxPages } } 

\* the 'Account Info' sheets of the workbooks: the workbook has none, or
\* the sheet has these rows of a field cell and a value cell
NoInfoSheet == [present |-> FALSE]

InfoSheet(rows) == [present |-> TRUE, rows |-> rows]

AccountInfoSheets ==
  { NoInfoSheet,
    InfoSheet(<< << StrCell(<<"B","a","n","k"," ","N","a","m","e">>), StrCell(<<"E","m","i","r","a","t","e","s"," ","N","B","D">>) >>,
                 << StrCell(<<"A","c","c","o","u","n","t"," ","H","o","l","d","e","r">>), StrCell(<<"A"," ","N","a","m","e">>) >> >>),
    InfoSheet(<< << StrCell(<<"A","c","c","o","u","n","t"," ","N","u","m","b","e","r">>), IntCell(1234567890) >>,
                 << StrCell(<<"B","a","n","k"," ","N","a","m","e">>), StrCell(<<"C","h","a","s","e">>) >>,
                 << StrCell(<<"A","c","c","o","u","n","t"," ","H","o","l","d","e","r">>), NoneCell >> >>) }

Workbooks ==
  { [kind |-> "xlsx", loads |-> loads, sheet_raises |-> sheet_raises, rows |-> rows,
     account_info |-> account_info] :
      loads \in BOOLEAN, sheet_raises \in BOOLEAN, rows \in 0..MaxItems,
      account_info \in AccountInfoSheets }

\* the libraries that were importable when the processors were loaded
Environments ==
  [excel : BOOLEAN, pdfplumber : BOOLEAN, pymupdf : BOOLEAN, pypdf2 : BOOLEAN]

\* the bank_info of an extraction that has one
ExtractedBankInfo ==
  [ bank_name |-> <<"E","N","B","D">>,
    account_holder |-> <<"A"," ","N","a","m","e">>,
    account_number |-> <<"1","2","3","4">>,
    currency |-> <<"A","E","D">> ]

ItemLists == UNION { [1..n -> { "good", "bad" }] : n \in 0..MaxItems }

\* what the extractor call does: it raises, or returns a text that is not
\* JSON, or the text of a JSON value
ExtractorBehaviours ==
  { ClassifierRaises, ResponseText("none", NotJson) }
    \cup { ResponseText("none", JsonText(v)) :
             v \in { NoneCell, IntCell(5), Array(<<>>), Extraction(Absent, Absent),
                     Extraction(Absent, ExtractedBankInfo) }
                   \cup { Extraction(Array(items), b) :
                            items \in ItemLists, b \in { Absent, ExtractedBankInfo } } }

\* what the classifier call of the batcher does on a list of n transactions
StatementClassifierBehaviours(n) ==
  { ClassifierRaises }
    \cup { ResponseText("none", JsonText(v)) :
             v \in { LabelArray(<< FoodDining, Income, Travel >>, n),
                     ArrayWithItem(<< FoodDining, Income, Travel >>, n, n, NoneCell),
                     IntCell(7) } }

CallInit ==
  /\ pc = "call"
  /\ document \in PdfDocuments \cup Workbooks
  /\ environment \in Environments
  /\ document.kind = "pdf" => environment.excel
  /\ document.kind = "xlsx" => environment.pdfplumber /\ environment.pymupdf /\ environment.pypdf2
  /\ document.kind = "pdf" /\ document.raises.backend # "none" => document.raises.at <= Len(document.pages)
  /\ api_key \in BOOLEAN
  /\ text_content = <<>>
  /\ tables_data = <<>>
  /\ opened_handles = {}
  /\ open_handles = {}
  /\ api_calls = <<>>
  /\ returned = NoReturn
  /\ all_transactions = <<>>
  /\ now = DateTimeCell(2026, 10, 31)
  /\ amount_col = FALSE
  /\ rows_read = 0
  /\ last_row = NoRow
  /\ processor = "xls"
  /\ before = <<>>
  /\ batch_start = 0
  /\ categorized_transactions = <<>>
  /\ calls = <<>>
  /\ result = <<>>
  /\ CatIdle
  /\ DateIdle
  /\ BankIdle
  /\ HeadersIdle
  /\ BookIdle
  /\ ScanIdle

\* process_pdf_file up to the text check: no library, or the text and the
\* tables are extracted and there is nothing of either.
PdfExtractText ==
  /\ pc = "call"
  /\ document.kind = "pdf"
  /\ IF ~(environment.pdfplumber \/ environment.pypdf2 \/ environment.pymupdf)
       THEN /\ returned' = Failure(no_pdf_library_message)
            /\ pc' = "returned"
            /\ UNCHANGED << text_content, tables_data, opened_handles, open_handles >>
       ELSE LET extracted == extract_text_from_pdf(environment, document)
            IN  /\ text_content' = extracted.text_content
                /\ tables_data' = extracted.tables_data
                /\ opened_handles' = opened_handles \cup extracted.opened
                /\ open_handles' = open_handles \cup extracted.open
                /\ IF extracted.text_content = <<>> /\ extracted.tables_data = <<>>
                     THEN returned' = Failure(no_text_message) /\ pc' = "returned"
                     ELSE returned' = returned /\ pc' = "extracted"
  /\ UNCHANGED << bank_info, environment, document, api_key, api_calls, all_transactions, exceptCall >>

\* process_pdf_file from the extractor call to the transactions built.
PdfExtractTransactions ==
  /\ pc = "extracted"
  /\ \E response \in ExtractorBehaviours :
     \E extracted \in { ExtractedTransactions(api_key, text_content, tables_data, response) } :
           /\ api_calls' = IF api_key THEN Append(api_calls, ApiCall("extractor", response))
                                     ELSE api_calls
           /\ IF extracted.returns
                THEN /\ returned' = extracted.pair
                     /\ pc' = "returned"
                     /\ bank_info' = bank_info
                     /\ all_transactions' = all_transactions
                ELSE /\ returned' = returned
                     /\ pc' = "built"
                     /\ bank_info' = extracted.bank_info
                     /\ all_transactions' = extracted.transactions
  /\ UNCHANGED << environment, document, api_key, text_content, tables_data,
                  opened_handles, open_handles, exceptCall >>

\* process_excel_file up to the workbook: openpyxl is missing, or
\* load_workbook raises, or the workbook is there.
LoadWorkbook ==
  /\ pc = "call"
  /\ document.kind = "xlsx"
  /\ IF ~environment.excel
       THEN /\ returned' = Failure(no_excel_message)
            /\ pc' = "returned"
            /\ UNCHANGED << opened_handles, open_handles >>
       ELSE IF ~document.loads
       THEN /\ returned' = Failure(excel_error_prefix)
            /\ pc' = "returned"
            /\ UNCHANGED << opened_handles, open_handles >>
       ELSE /\ returned' = returned
            /\ pc' = "loaded"
            /\ opened_handles' = opened_handles \cup { "workbook" }
            /\ open_handles' = open_handles \cup { "workbook" }
  /\ UNCHANGED << bank_info, environment, document, api_key, text_content, tables_data, api_calls,
                  all_transactions, exceptCall >>

\* The 'Account Info' sheet, if the workbook has one, is read into
\* bank_info, and then the other sheets of the workbook are read: the rows
\* of the data sheet are appended to all_transactions, and the sheet after
\* it, if it raises outside the row loop's own try, leaves through the
\* outer except, with bank_info and all_transactions as they are by then.
ProcessSheets ==
  /\ pc = "loaded"
  /\ bank_info' = IF document.account_info.present
                     THEN AccountInfoLoop(default_bank_info, document.account_info.rows)
                     ELSE default_bank_info
  /\ all_transactions' = InputTransactions("xls", document.rows)
  /\ IF document.sheet_raises
       THEN /\ returned' = Failure(excel_error_prefix)
            /\ pc' = "returned"
       ELSE /\ returned' = returned
            /\ pc' = "built"
  /\ UNCHANGED << environment, document, api_key, text_content, tables_data, api_calls,
                  opened_handles, open_handles, exceptCall >>

\* The end of both functions: the batcher is called on a list that is not
\* empty, and the success pair is returned.
CategorizeAndReturn ==
  /\ pc = "built"
  /\ LET proc == IF document.kind = "pdf" THEN "pdf" ELSE "xls"
         mode == IF document.kind = "pdf" THEN processing_mode_pdf ELSE processing_mode_excel
     IN  IF Len(all_transactions) > 0
           THEN \E response \in StatementClassifierBehaviours(Len(all_transactions)) :
                  LET categorized == CategorizedList(proc, api_key, all_transactions, response)
                  IN  /\ all_transactions' = categorized.objects
                      /\ api_calls' = IF api_key THEN Append(api_calls, ApiCall("classifier", response))
                                           ELSE api_calls
                      /\ returned' = Success(categorized.list, bank_info, mode)
           ELSE /\ all_transactions' = all_transactions
                /\ api_calls' = api_calls
                /\ returned' = Success(<<>>, bank_info, mode)
  /\ pc' = "returned"
  /\ UNCHANGED << bank_info, environment, document, api_key, text_content, tables_data,
                  opened_handles, open_handles, exceptCall >>

CallNext ==
  \/ PdfExtractText
  \/ PdfExtractTransactions
  \/ LoadWorkbook
  \/ ProcessSheets
  \/ CategorizeAndReturn

SpecCall == CallInit /\ [][CallNext]_vars

-----------------------------------------------------------------------------
(* The sheet loop of process_excel_file on bounded workbooks               *)

\* the name of the sheet that holds the account details
account_info_sheet == "Account Info"

\* worksheet.max_column: the rightmost column in which the sheet has a cell
RECURSIVE SheetWidth(_)
SheetWidth(sheet_rows) ==
  IF sheet_rows = <<>> THEN 1
  ELSE LET rest == SheetWidth(Tail(sheet_rows))
       IN  IF Len(Head(sheet_rows)) > rest THEN Len(Head(sheet_rows)) ELSE rest

\* worksheet.cell(r, col).value
CellAt(sheet_rows, r, col) ==
  IF col <= Len(sheet_rows[r]) THEN sheet_rows[r][col] ELSE NoneCell

\* find_data_headers on a whole sheet: the loop over the rows from row r on
RECURSIVE HeaderSearch(_, _)
HeaderSearch(sheet_rows, r) ==
  IF ~(r < Min(row_scan_limit, Len(sheet_rows) + 1)) THEN default_column_map
  ELSE LET width == SheetWidth(sheet_rows)
           scanned == ScanColumns(RowOfWidth(sheet_rows[r], width), Cardinality(ScannedColumns(width)))
       IN  IF scanned.header_count >= header_threshold
             THEN ("header_row" :> r) @@ scanned.row_data
             ELSE HeaderSearch(sheet_rows, r + 1)

find_data_headers(sheet_rows) == HeaderSearch(sheet_rows, 1)

\* column_map.get(key, default)
MapGet(map, key, default) == IF key \in DOMAIN map THEN map[key] ELSE default

\* the positions in workbook.sheetnames of transaction_sheets
TransactionSheets(book) == { i \in 1..Len(book) : book[i].name # account_info_sheet }

\* the transaction sheet after position i, or 0 when there is none
NextTransactionSheet(book, i) ==
  IF \E j \in TransactionSheets(book) : j > i
    THEN CHOOSE j \in TransactionSheets(book) : j > i /\ \A k \in TransactionSheets(book) : k > i => j <= k
    ELSE 0

\* a sheet loop that detects the columns once, on the first transaction sheet
SheetColumnMap_of_first(book, i) == find_data_headers(book[NextTransactionSheet(book, 0)].rows)

\* the column map the sheet loop uses for the sheet at position i
SheetColumnMap(book, i) == find_data_headers(book[i].rows)

\* workbooks have at most MaxSheets sheets
MaxSheets == 3

SheetNames == { account_info_sheet, "January", "February" }

\* what a sheet can hold
SheetContents ==
  { << << StrCell(<<"E","m","i","r","a","t","e","s"," ","N","B","D">>), IntCell(2024) >>,
       << StrCell(<<"D","a","t","e">>), StrCell(<<"D","e","s","c","r","i","p","t","i","o","n">>), NoneCell, StrCell(<<"D","e","b","i","t">>), StrCell(<<"C","r","e","d","i","t">>) >>,
       << StrCell(<<"1","5","/","0","1","/","2","0","2","4">>), StrCell(<<"C","a","r","r","e","f","o","u","r"," ","M","a","l","l">>), NoneCell, IntCell(50) >>,
       << StrCell(<<"1","2","/","2","5","/","2","0","2","4">>), NoneCell, NoneCell, NoneCell, StrCell(<<"-","1",",","2","5","0",".","5","0">>) >> >>,
    << << StrCell(<<"D","a","t","e">>), StrCell(<<"A","m","o","u","n","t">>), StrCell(<<"D","e","s","c","r","i","p","t","i","o","n">>) >>,
       << StrCell(<<"1","5","/","0","1","/","2","0","2","4">>), IntCell(-75), StrCell(<<"C","a","r","r","e","f","o","u","r"," ","M","a","l","l">>) >>,
       << StrCell(<<"T","o","t","a","l">>), IntCell(-75) >> >>,
    << << StrCell(<<"1","5","/","0","1","/","2","0","2","4">>), StrCell(<<"C","a","r","r","e","f","o","u","r"," ","M","a","l","l">>), NoneCell, IntCell(50) >>,
       << StrCell(<<"1","2","/","2","5","/","2","0","2","4">>), StrCell(<<"C","a","r","r","e","f","o","u","r"," ","M","a","l","l">>), NoneCell, NoneCell, StrCell(<<"-","1",",","2","5","0",".","5","0">>) >>,
       << StrCell(<<"1","5","/","0","1","/","2","0","2","4">>), NoneCell, NoneCell, StrCell(<<"a","b","c">>) >> >>,
    << <<>>,
       << StrCell(<<"D","e","s","c","r","i","p","t","i","o","n">>), StrCell(<<"D","e","b","i","t">>), StrCell(<<"C","r","e","d","i","t">>), StrCell(<<"D","a","t","e">>) >>,
       << StrCell(<<"C","a","r","r","e","f","o","u","r"," ","M","a","l","l">>), IntCell(50), NoneCell, StrCell(<<"1","5","/","0","1","/","2","0","2","4">>) >>,
       << NoneCell, NoneCell, StrCell(<<"-","1",",","2","5","0",".","5","0">>), StrCell(<<"1","2","/","2","5","/","2","0","2","4">>) >> >>,
    << << StrCell(<<"B","a","n","k"," ","N","a","m","e">>), StrCell(<<"E","m","i","r","a","t","e","s"," ","N","B","D">>) >>,
       << StrCell(<<"1","5","/","0","1","/","2","0","2","4">>), StrCell(<<"C","a","r","r","e","f","o","u","r"," ","M","a","l","l">>), NoneCell, IntCell(50) >> >> }

NameLists == UNION { { names \in [1..n -> SheetNames] : \A i, j \in 1..n : i # j => names[i] # names[j] } : n \in 1..MaxSheets }

Workbooks_of_sheets ==
  UNION { { [i \in 1..Len(names) |-> [name |-> names[i], rows |-> contents[i]]] :
              contents \in [1..Len(names) -> SheetContents] } : names \in NameLists }

BookInit ==
  /\ pc = "sheets"
  /\ workbook \in Workbooks_of_sheets
  /\ sheet_index = 0
  /\ origins = <<>>
  /\ all_transactions = <<>>
  /\ amount_col = FALSE
  /\ rows_read = 0
  /\ last_row = NoRow
  /\ now = DateTimeCell(2026, 10, 31)
  /\ HeadersIdle
  /\ CatIdle
  /\ DateIdle
  /\ AiIdle
  /\ BankIdle
  /\ CallIdle
  /\ ScanIdle

\* The sheet loop takes the next transaction sheet: its headers are searched
\* and the row loop is set at the row after the header row.
OpenSheet ==
  /\ pc = "sheets"
  /\ NextTransactionSheet(workbook, sheet_index) # 0
  /\ LET i == NextTransactionSheet(workbook, sheet_index)
         map == SheetColumnMap(workbook, i)
     IN  /\ sheet_index' = i
         /\ column_map' = map
         /\ amount_col' = ("amount_col" \in DOMAIN map)
         /\ row' = MapGet(map, "header_row", 1)
         /\ max_row' = Len(workbook[i].rows)
         /\ max_column' = SheetWidth(workbook[i].rows)
  /\ row_cells' = <<>>
  /\ last_row' = NoRow
  /\ pc' = "sheet rows"
  /\ UNCHANGED << workbook, origins, all_transactions, rows_read, exceptBook >>

\* The body of the row loop on the next row of the sheet: the cells are read
\* at the columns of the sheet's map.
SheetRow ==
  /\ pc = "sheet rows"
  /\ row < max_row
  /\ LET sheet_rows == workbook[sheet_index].rows
         r == row + 1
         date_cell == CellAt(sheet_rows, r, MapGet(column_map, "date_col", 1))
         description_cell == CellAt(sheet_rows, r, MapGet(column_map, "description_col", 2))
         debit_cell == CellAt(sheet_rows, r, MapGet(column_map, "debit_col", 4))
         credit_cell == CellAt(sheet_rows, r, MapGet(column_map, "credit_col", 5))
         amount_cell == IF amount_col THEN CellAt(sheet_rows, r, column_map["amount_col"]) ELSE NoneCell
         step == RowStep(date_cell, description_cell, debit_cell, credit_cell, amount_cell,
                         Len(all_transactions))
     IN  /\ all_transactions' = all_transactions \o step.tx
         /\ origins' = IF step.tx = <<>> THEN origins
                       ELSE Append(origins, [sheet |-> sheet_index, row |-> r])
         /\ last_row' = [ outcome |-> step.outcome, source |-> step.source,
                          date_cell |-> date_cell, description_cell |-> description_cell,
                          debit_cell |-> debit_cell, credit_cell |-> credit_cell,
                          amount_cell |-> amount_cell ]
         /\ row_cells' = sheet_rows[r]
         /\ row' = r
  /\ rows_read' = rows_read + 1
  /\ UNCHANGED << pc, workbook, sheet_index, column_map, amount_col, max_row, max_column, exceptBook >>

\* The row loop of the sheet ends at worksheet.max_row.
EndOfSheetRows ==
  /\ pc = "sheet rows"
  /\ ~(row < max_row)
  /\ pc' = "sheets"
  /\ UNCHANGED << workbook, sheet_index, origins, all_transactions, rowVars, headerVars, exceptBook >>

\* The sheet loop ends: the list goes on to ai_categorize_transactions.
EndOfSheets ==
  /\ pc = "sheets"
  /\ NextTransactionSheet(workbook, sheet_index) = 0
  /\ pc' = "categorize"
  /\ UNCHANGED << workbook, sheet_index, origins, all_transactions, rowVars, headerVars, exceptBook >>

BookNext == OpenSheet \/ SheetRow \/ EndOfSheetRows \/ EndOfSheets

SpecBook == BookInit /\ [][BookNext]_vars

-----------------------------------------------------------------------------
(* Claims about the rule-based categorizers (checked under SpecCat)        *)

\* C4: for every description, the empty one included, both rule-based
\* categorizers return a label of the closed category set, return the same
\* label on every call with that description, and return "Other Expenses"
\* for the empty string.
Thm_C4_CategorizersTotal ==
  /\ \A i \in 1..Len(xls_category) :
       xls_category[i] \in CategorySet /\ xls_category[i] = xls_category[1]
  /\ \A i \in 1..Len(pdf_category) :
       pdf_category[i] \in CategorySet /\ pdf_category[i] = pdf_category[1]
  /\ description = <<>> =>
       /\ \A i \in 1..Len(xls_category) : xls_category[i] = OtherExpenses
       /\ \A i \in 1..Len(pdf_category) : pdf_category[i] = OtherExpenses

\* both categorizers have been called twice on the empty description
Wit_C4_EmptyCategorizedTwice ==
  description = <<>> /\ Len(xls_category) = MaxCalls /\ Len(pdf_category) = MaxCalls

\* the three guarded labels are returned only for a description that
\* contains one of the label's guard terms
GuardsRespected(results) ==
  \A i \in 1..Len(results) :
    /\ results[i] = BankingFinance => AnyIn(Xls_banking_terms, lower(description))
    /\ results[i] = Subscriptions => AnyIn(Xls_subscription_terms, lower(description))
    /\ results[i] = AtmCash => AnyIn(Xls_atm_terms, lower(description))

\* C5: in both rule-based categorizers "Banking & Finance", "Subscriptions &
\* Digital Services" and "ATM & Cash Withdrawals" are returned only when the
\* lowercased description contains one of that label's guard terms.
Cex_C5_GuardsInBothCategorizers ==
  GuardsRespected(xls_category) /\ GuardsRespected(pdf_category)

\* the keywords of the categories of the priority list, lowercased, by position
PriorityKeywords ==
  [i \in 1..Len(category_priority) |->
     { SubSeq(lower(Xls_categories(category_priority[i])[k]), 1, Len(Xls_categories(category_priority[i])[k])) :
         k \in 1..Len(Xls_categories(category_priority[i])) }] @@ <<>>

\* the positions of category_priority whose category has a keyword that is a
\* case-insensitive substring of the text
KeywordMatches(text) ==
  LET t == Lowered(text)
  IN  { i \in 1..Len(category_priority) : \E keyword \in PriorityKeywords[i] : Contains(t, keyword) }

\* those of them whose guard, if any, holds
Qualifying(text) ==
  { i \in KeywordMatches(text) : Xls_guard(category_priority[i], Lowered(text)) }

\* those of them whose guard fails
GuardFails(text) == KeywordMatches(text) \ Qualifying(text)

\* C21: whenever some category of the priority list has a keyword that is a
\* case-insensitive substring of the description and has its guard satisfied,
\* the Excel categorizer returns the first such category in priority order; a
\* category earlier in the list whose keyword matches but whose guard fails
\* does not stop the scan.
Thm_C21_FirstQualifyingCategoryWins ==
  Len(xls_category) > 0 =>
    LET qualifying == Qualifying(description)
    IN  qualifying # {} =>
          \E i \in qualifying :
            /\ \A j \in qualifying : i <= j
            /\ \A n \in 1..Len(xls_category) : xls_category[n] = category_priority[i]

\* the categorizer was called on a description in which an earlier category
\* (Subscriptions, by "dropbox") fails its guard and a later one qualifies
Wit_C21_LaterCategoryAfterFailedGuard ==
  /\ Len(xls_category) > 0
  /\ \E i \in GuardFails(description) : \E j \in Qualifying(description) :
       i < j /\ xls_category[1] = category_priority[j]

\* categorize_transaction cut after the priority pass: "Other Expenses" as
\* soon as no category of the priority list has keyword and guard satisfied
Xls_categorize_priority_only(text) ==
  LET byPriority == Xls_priority_pass(strip(lower(text)), 1)
  IN  IF byPriority # NoCategory THEN byPriority ELSE Xls_default_category

\* the words of the broad checks and the merchant literals, lowercased
LaterStageWords ==
  { Xls_transport_words[i] : i \in 1..Len(Xls_transport_words) }
    \cup { Xls_food_words[i] : i \in 1..Len(Xls_food_words) }
    \cup { Xls_shopping_words[i] : i \in 1..Len(Xls_shopping_words) }
    \cup { SubSeq(lower(merchant_patterns[i][1]), 1, Len(merchant_patterns[i][1])) : i \in 1..Len(merchant_patterns) }

\* every such word contains a keyword of a category of the priority list
\* that has no guard, so the priority pass returns whenever the word occurs
LaterStagesCovered ==
  \A word \in LaterStageWords :
    \E i \in 1..Len(category_priority) :
      /\ category_priority[i] \notin { AtmCash, Subscriptions, BankingFinance }
      /\ \E keyword \in PriorityKeywords[i] : Contains(word, keyword)

\* C30: the broad word checks and the merchant table after the priority pass
\* never decide the result of the Excel categorizer: on every description it
\* returns the label of the version that returns "Other Expenses" directly
\* when the priority pass finds no category.
Thm_C30_LaterStagesNeverDecide ==
  /\ LaterStagesCovered
  /\ \A n \in 1..Len(xls_category) : xls_category[n] = Xls_categorize_priority_only(description)

\* the categorizer was called on a description holding a word of the later
\* stages, and on one for which the priority pass finds nothing
Wit_C30_LaterStageWordCategorized ==
  /\ Len(xls_category) = MaxCalls
  /\ \E word \in LaterStageWords : Contains(Lowered(description), word)

PriorityPassFindsNothing ==
  /\ Len(xls_category) = MaxCalls
  /\ description # <<>>
  /\ Xls_priority_pass(strip(lower(description)), 1) = NoCategory

-----------------------------------------------------------------------------
(* Claims about the date normaliser (checked under SpecDate)               *)

\* r is ten characters, four digits, dash, two digits, dash, two digits
IsoShape(r) ==
  /\ Len(r) = 10
  /\ r[5] = "-" /\ r[8] = "-"
  /\ \A i \in {1, 2, 3, 4, 6, 7, 9, 10} : IsDigit(r[i])

\* r is of IsoShape and reads as year y, month m, day d
ReadsAs(r, y, m, d) ==
  /\ IsoShape(r)
  /\ StrNat(SubSeq(r, 1, 4)) = y
  /\ StrNat(SubSeq(r, 6, 7)) = m
  /\ StrNat(SubSeq(r, 9, 10)) = d

\* C9: detect_date_format reads D/M/YYYY as day/month/year, M/D/YY as
\* month/day/year with the year pivot at 50, and YYYY-M-D as year-month-day,
\* and writes YYYY-MM-DD with day and month padded to two digits; so
\* "25/12/2024" gives "2024-12-25", "03/04/23" gives "2023-03-04" and a
\* YYYY-MM-DD text is returned unchanged.
Thm_C9_DatePolicy ==
  (date_result # <<>> /\ date_string.t = "str") =>
    LET s == date_string.s
        f == Split(s, "/")
        g == Split(s, "-")
    IN  /\ (Len(f) = 3 /\ DigitRun(f[1], 1, 2) /\ DigitRun(f[2], 1, 2) /\ DigitRun(f[3], 4, 4))
             => ReadsAs(date_result[1], StrNat(f[3]), StrNat(f[2]), StrNat(f[1]))
        /\ (Len(f) = 3 /\ DigitRun(f[1], 1, 2) /\ DigitRun(f[2], 1, 2) /\ DigitRun(f[3], 2, 2))
             => ReadsAs(date_result[1],
                        IF StrNat(f[3]) < 50 THEN 2000 + StrNat(f[3]) ELSE 1900 + StrNat(f[3]),
                        StrNat(f[1]), StrNat(f[2]))
        /\ (Len(g) = 3 /\ DigitRun(g[1], 4, 4) /\ DigitRun(g[2], 1, 2) /\ DigitRun(g[3], 1, 2))
             => ReadsAs(date_result[1], StrNat(g[1]), StrNat(g[2]), StrNat(g[3]))
        /\ s = <<"2","5","/","1","2","/","2","0","2","4">>
             => date_result[1] = <<"2","0","2","4","-","1","2","-","2","5">>
        /\ s = <<"0","3","/","0","4","/","2","3">>
             => date_result[1] = <<"2","0","2","3","-","0","3","-","0","4">>
        /\ IsoShape(s) => date_result[1] = s

\* "25/12/2024" has been normalised
Wit_C9_ChristmasNormalised ==
  /\ date_string = StrCell(<<"2","5","/","1","2","/","2","0","2","4">>)
  /\ date_result = << <<"2","0","2","4","-","1","2","-","2","5">> >>

-----------------------------------------------------------------------------
(* Claims about the row loop of process_excel_file (checked under          *)
(* SpecExcel)                                                              *)

\* the transaction built from the row just visited
LastTransaction == all_transactions[Len(all_transactions)]

\* C6: every transaction built by process_excel_file has an Amount other
\* than 0, and when the sheet has no amount column the Amount is strictly
\* negative exactly when it was taken from the debit cell and strictly
\* positive exactly when it was taken from the credit cell, the debit cell
\* being the one taken whenever it holds a value.
Cex_C6_AmountSignFollowsSource ==
  /\ \A i \in 1..Len(all_transactions) : ~IsZero(all_transactions[i].Amount)
  /\ (last_row.outcome = "emitted" /\ ~amount_col) =>
       /\ IsNegative(LastTransaction.Amount) <=> last_row.source = "debit"
       /\ IsPositive(LastTransaction.Amount) <=> last_row.source = "credit"
       /\ HoldsAmount(last_row.debit_cell) => last_row.source = "debit"

\* the same for the rows whose amount is a finite number
AmountSignFollowsSourceOfFiniteAmounts ==
  /\ \A i \in 1..Len(all_transactions) : ~IsZero(all_transactions[i].Amount)
  /\ (last_row.outcome = "emitted" /\ ~amount_col /\ IsFinite(LastTransaction.Amount)) =>
       /\ IsNegative(LastTransaction.Amount) <=> last_row.source = "debit"
       /\ IsPositive(LastTransaction.Amount) <=> last_row.source = "credit"
       /\ HoldsAmount(last_row.debit_cell) => last_row.source = "debit"

\* r is of IsoShape and names a day of the calendar
IsCalendarDate(r) ==
  /\ IsoShape(r)
  /\ LET y == StrNat(SubSeq(r, 1, 4))
         m == StrNat(SubSeq(r, 6, 7))
         d == StrNat(SubSeq(r, 9, 10))
     IN  m \in 1..12 /\ d \in 1..DaysInMonth(y, m)

\* C8: every Date of the transactions built by process_excel_file is a
\* YYYY-MM-DD text that names a real calendar date (month 01..12 and a day
\* that exists in that month), whatever the date cell held.
Cex_C8_DatesAreCalendarDates ==
  \A i \in 1..Len(all_transactions) : IsCalendarDate(all_transactions[i].Date)

\* the weaker statement: every Date has the YYYY-MM-DD shape
DatesHaveIsoShape ==
  \A i \in 1..Len(all_transactions) : IsoShape(all_transactions[i].Date)

\* the date cell of the row just visited is non-empty and matches none of
\* the date patterns
MalformedDateRead ==
  /\ last_row # NoRow
  /\ Truthy(last_row.date_cell)
  /\ last_row.date_cell.t # "datetime"
  /\ TryPatterns(strip(PyStr(last_row.date_cell)), 1) = NoMatch

\* the date cell of the row just visited marks the row as a summary row
SummaryDateRead ==
  AnyIn(summary_date_keywords, upper(PyStr(last_row.date_cell)))

\* what the row just visited would have become with a well-formed date in
\* its date cell
WithWellFormedDate ==
  RowStep(StrCell(<<"1","5","/","0","1","/","2","0","2","4">>), last_row.description_cell,
          last_row.debit_cell, last_row.credit_cell, last_row.amount_cell,
          Len(all_transactions) - (IF last_row.outcome = "emitted" THEN 1 ELSE 0))

\* C10: for a non-empty cell value that matches none of the date patterns
\* detect_date_format returns the current date as YYYY-MM-DD, and a row
\* with such a date cell (not a summary row) becomes a transaction, dated
\* today, whenever it would have become one with a well-formed date; the
\* rows before it are kept.
Thm_C10_MalformedDateKeepsRow ==
  MalformedDateRead =>
    /\ detect_date_format(last_row.date_cell) = strftime(now)
    /\ IsCalendarDate(detect_date_format(last_row.date_cell))
    /\ (WithWellFormedDate.outcome = "emitted" /\ ~SummaryDateRead) =>
         /\ last_row.outcome = "emitted"
         /\ LastTransaction.Date = strftime(now)
         /\ LastTransaction.Amount = WithWellFormedDate.tx[1].Amount
         /\ LastTransaction.Description = WithWellFormedDate.tx[1].Description

\* two rows with the date cell "n/a" have both become transactions
Wit_C10_TwoMalformedDatesEmitted ==
  /\ MalformedDateRead
  /\ last_row.outcome = "emitted"
  /\ rows_read = 2
  /\ Len(all_transactions) = 2
  /\ all_transactions[1].Date = strftime(now)
  /\ all_transactions[2].Date = strftime(now)

\* the description cell of the row just visited is absent or blank
BlankDescriptionRead ==
  \/ ~Truthy(last_row.description_cell)
  \/ strip(PyStr(last_row.description_cell)) = <<>>

\* C14: every transaction built by process_excel_file has a non-empty
\* Description; when the description cell is absent or blank (empty or
\* blanks only) the Description is "Transaction n", n being one more than
\* the number of transactions built before.
Cex_C14_DescriptionNeverEmpty ==
  /\ \A i \in 1..Len(all_transactions) : all_transactions[i].Description # <<>>
  /\ (last_row.outcome = "emitted" /\ BlankDescriptionRead) =>
       LastTransaction.Description = SynthesizedDescription(Len(all_transactions))

\* the same for the rows whose description cell is absent or holds text
\* other than blanks
DescriptionSynthesizedForAbsentCell ==
  (last_row.outcome = "emitted" /\ ~Truthy(last_row.description_cell)) =>
    LastTransaction.Description = SynthesizedDescription(Len(all_transactions))

\* the six words that mark a summary row
summary_words ==
  << <<"T","O","T","A","L">>, <<"S","U","M","M","A","R","Y">>, <<"B","A","L","A","N","C","E">>,
     <<"O","P","E","N","I","N","G">>, <<"C","L","O","S","I","N","G">>, <<"M","O","N","T","H","L","Y">> >>

\* C15: no transaction is built for a row whose date cell text or
\* description cell text contains, in any case, one of TOTAL, SUMMARY,
\* BALANCE, OPENING, CLOSING, MONTHLY.
Cex_C15_SummaryRowsSkipped ==
  ( /\ last_row # NoRow
    /\ \/ AnyIn(summary_words, upper(StrOrEmpty(last_row.date_cell)))
       \/ AnyIn(summary_words, upper(StrOrEmpty(last_row.description_cell))) )
  => last_row.outcome # "emitted"

\* the number a cell yields: float() of its text without commas, when that
\* parses to a number other than zero
YieldsNumber(cell) ==
  /\ cell # NoneCell
  /\ LET f == PyFloat(RemoveChar(PyStr(cell), ","))
     IN  f.ok /\ f.v # NaN /\ ~IsZero(f.v)

\* a debit cell that carries no amount: empty, the placeholder '-', a zero
\* value, or text that is not a number
CarriesNoAmount(cell) ==
  \/ cell = NoneCell
  \/ strip(PyStr(cell)) \in { <<>>, <<"-">> }
  \/ ~ PyFloat(RemoveChar(PyStr(cell), ",")).ok
  \/ IsZero(PyFloat(RemoveChar(PyStr(cell), ",")).v)

\* a row of a debit/credit sheet that got past the date and summary tests
DebitCreditRowRead ==
  /\ last_row.outcome \notin { "no row", "empty date", "summary row" }
  /\ ~ amount_col

\* C22: in debit/credit mode a row with a usable date, a credit cell holding
\* a non-zero number c and a debit cell that carries no amount (empty, '-',
\* a zero value such as 0 or "0.00", or unparseable text) yields a
\* transaction with Amount = |c|; a row is dropped on account of its amount
\* only when neither the debit nor the credit cell yields a non-zero number.
Cex_C22_CreditTakenWhenDebitCarriesNoAmount ==
  DebitCreditRowRead =>
    /\ (CarriesNoAmount(last_row.debit_cell) /\ YieldsNumber(last_row.credit_cell)) =>
         /\ last_row.outcome = "emitted"
         /\ LastTransaction.Amount = Abs(PyFloat(RemoveChar(PyStr(last_row.credit_cell), ",")).v)
    /\ (last_row.outcome \in { "no amount", "bad number" }) =>
         ~ YieldsNumber(last_row.debit_cell) /\ ~ YieldsNumber(last_row.credit_cell)

\* the part of it the code keeps: the credit cell is taken whenever the
\* debit cell is empty, blank text, the placeholder '-' or a zero number
CreditTakenWhenDebitBlank ==
  ( /\ DebitCreditRowRead
    /\ \/ ~ Truthy(last_row.debit_cell)
       \/ strip(PyStr(last_row.debit_cell)) \in { <<>>, <<"-">> }
    /\ YieldsNumber(last_row.credit_cell) ) =>
    /\ last_row.outcome = "emitted"
    /\ LastTransaction.Amount = Abs(PyFloat(RemoveChar(PyStr(last_row.credit_cell), ",")).v)

\* the cell float() is applied to in the row read latest
AmountSourceCell ==
  IF amount_col THEN last_row.amount_cell
  ELSE IF HoldsAmount(last_row.debit_cell) THEN last_row.debit_cell
  ELSE last_row.credit_cell

\* the row read latest got as far as the amount and float() raised on it
RowRaised ==
  /\ last_row.outcome \notin { "no row", "empty date", "summary row" }
  /\ AmountSourceCell # NoneCell
  /\ ~ PyFloat(RemoveChar(PyStr(AmountSourceCell), ",")).ok

\* C25: a row whose processing raises contributes no transaction and
\* changes nothing else: the step that reads it leaves the transactions
\* built so far, the column mode and the loop as they were, so the rows
\* after it are processed exactly as if it were absent, and the sheet loop
\* still runs to its end, where the list goes on to the success return.
Thm_C25_RaisingRowSkippedAlone ==
  /\ [](RowRaised <=> last_row.outcome = "bad number")
  /\ [][ (last_row = NoRow /\ last_row'.outcome = "bad number") =>
           /\ all_transactions' = all_transactions
           /\ pc' = pc /\ pc = "rows"
           /\ UNCHANGED << amount_col, now >> ]_vars
  /\ [](pc \in { "rows", "categorize" })

\* a row with a malformed number was read after a row that became a
\* transaction
Wit_C25_MalformedRowAfterTransaction ==
  /\ RowRaised
  /\ rows_read = 2
  /\ Len(all_transactions) = 1

-----------------------------------------------------------------------------
(* Claims about find_data_headers (checked under SpecHeaders)              *)

\* the columns, among the first nine, whose cell text contains a header keyword
KeywordCells(cells) ==
  { col \in 1..Min(Len(cells), 9) :
      \E i \in 1..Len(header_keywords) : Contains(lower(StrOrEmpty(cells[col])), header_keywords[i]) }

\* the roles of the column map and the keywords that announce each
Roles == { "date_col", "description_col", "type_col", "reference_col", "debit_col", "credit_col", "amount_col" }

RoleKeywords(role) ==
  CASE role = "date_col" -> { <<"d","a","t","e">> }
    [] role = "description_col" -> { <<"d","e","s","c","r","i","p","t","i","o","n">>, <<"p","a","r","t","i","c","u","l","a","r">>, <<"n","a","r","r","a","t","i","o","n">> }
    [] role = "type_col" -> { <<"t","y","p","e">> }
    [] role = "reference_col" -> { <<"r","e","f","e","r","e","n","c","e">>, <<"r","e","f">> }
    [] role = "debit_col" -> { <<"d","e","b","i","t">> }
    [] role = "credit_col" -> { <<"c","r","e","d","i","t">> }
    [] role = "amount_col" -> { <<"a","m","o","u","n","t">> }

\* the text of the cell in the column contains a keyword of the role
Carries(cells, col, role) ==
  \E k \in RoleKeywords(role) : Contains(lower(StrOrEmpty(cells[col])), k)

\* the row read latest reaches the threshold of three keyword cells
ThresholdReached == row >= 1 /\ Cardinality(KeywordCells(row_cells)) >= 3

\* the search has returned
HeadersReturned == pc \in { "found", "default" }

\* the row read latest is the row of the example, in row 5 of the sheet
ExampleRowRead ==
  /\ row = 5
  /\ max_column >= 5
  /\ SubSeq(row_cells, 1, 5) = ExampleHeaderRow
  /\ \A col \in 6..max_column : row_cells[col] = NoneCell

\* the word is in the text at position p
OccursAt(text, word, p) ==
  /\ p >= 1
  /\ p + Len(word) - 1 <= Len(text)
  /\ SubSeq(text, p, p + Len(word) - 1) = word

\* the keywords a header cell is searched for: the header keywords and
\* those of the roles
CellKeywords ==
  { header_keywords[i] : i \in 1..Len(header_keywords) } \cup UNION { RoleKeywords(role) : role \in Roles }

\* where the last keyword of the text begins (0: it has none)
LastKeywordAt(text) ==
  LET places == { p \in 1..Len(text) : \E word \in CellKeywords : OccursAt(text, word, p) }
  IN  IF places = {} THEN 0 ELSE CHOOSE p \in places : \A q \in places : q <= p

\* the cell in the column announces the role: the last keyword of its text
\* is a keyword of the role
Announces(cells, col, role) ==
  LET text == lower(StrOrEmpty(cells[col]))
  IN  \E word \in RoleKeywords(role) : OccursAt(text, word, LastKeywordAt(text))

\* The search passes only rows with fewer than three keyword cells among
\* their first nine columns and stops at the first row with three or more,
\* which it returns as header_row; the example row in row 5 gives
\* header_row 5 and its five columns.
FirstHeaderRowReturned ==
  /\ pc = "scan" => ~ThresholdReached /\ column_map = NoMap
  /\ pc = "default" => ~ThresholdReached /\ row = Min(19, max_row)
  /\ pc = "found" =>
       /\ ThresholdReached
       /\ column_map["header_row"] = row
       /\ DOMAIN column_map \subseteq Roles \cup { "header_row" }
       /\ ExampleRowRead =>
            column_map = [ header_row |-> 5, date_col |-> 1, amount_col |-> 2,
                           description_col |-> 3, debit_col |-> 4, credit_col |-> 5 ]

\* The map of the header row holds each role that a keyword cell of the
\* row announces, and every role it holds points at the column of a
\* keyword cell that announces the role.
EachRoleMappedToItsCell ==
  pc = "found" =>
    /\ \A role \in Roles :
         (\E col \in KeywordCells(row_cells) : Announces(row_cells, col, role))
           => role \in DOMAIN column_map
    /\ \A role \in DOMAIN column_map \ { "header_row" } :
         /\ column_map[role] \in KeywordCells(row_cells)
         /\ Announces(row_cells, column_map[role], role)

\* The default map is returned exactly when no scanned row reaches the
\* threshold.
DefaultMapExactlyWithoutHeaderRow ==
  HeadersReturned => (column_map = default_column_map <=> ~ThresholdReached)

\* C16: find_data_headers returns as header_row the first scanned row in
\* which at least 3 cells of the first 9 columns contain a header keyword,
\* never a row with fewer, and maps each role to the column of the cell
\* carrying its keyword (of a cell with several keywords the last one
\* counts); the example row in row 5 gives header_row 5 and its five
\* columns; the default map is returned exactly when no scanned row
\* reaches the threshold.
Cex_C16_HeaderRowAndRolesDetected ==
  /\ FirstHeaderRowReturned
  /\ EachRoleMappedToItsCell
  /\ DefaultMapExactlyWithoutHeaderRow

\* what the code maps instead: every role of the map points at a keyword
\* cell that contains a keyword of the role, and a role is in the map when
\* a keyword cell contains a keyword of it and of no other role
RolesPointAtCellsContainingKeyword ==
  pc = "found" =>
    /\ \A role \in DOMAIN column_map \ { "header_row" } :
         /\ column_map[role] \in KeywordCells(row_cells)
         /\ Carries(row_cells, column_map[role], role)
    /\ \A role \in Roles :
         (\E col \in KeywordCells(row_cells) :
            /\ Carries(row_cells, col, role)
            /\ \A other \in Roles \ { role } : ~Carries(row_cells, col, other))
         => role \in DOMAIN column_map

\* and when the default map is returned: whenever no scanned row reaches
\* the threshold, and for a header row that is laid out as the default map
DefaultMapWithoutHeaderRow ==
  /\ (HeadersReturned /\ ~ThresholdReached) => column_map = default_column_map
  /\ (HeadersReturned /\ column_map # default_column_map) => pc = "found"

\* the example row was found in row 5 below four rows without headers
ExampleFoundInRowFive ==
  /\ pc = "found"
  /\ ExampleRowRead
  /\ column_map["amount_col"] = 2

\* C23: find_data_headers examines rows 1 through 20 inclusive of a sheet
\* that has at least 20 rows, so that a row 20 that is the first with three
\* keyword cells is returned as header_row: on such a sheet the default map
\* is returned only after row 20 has been read and found below the threshold.
Cex_C23_RowTwentyExamined ==
  (pc = "default" /\ max_row >= 20) => row = 20

\* what the search examines instead: rows 1 through 19, or all rows of a
\* shorter sheet
RowsOneToNineteenExamined ==
  /\ row <= Min(19, max_row)
  /\ pc = "default" => row = Min(19, max_row)

\* the scanned columns of the row read latest whose cell maps to the role
CellsOfRole(role) ==
  { col \in KeywordCells(row_cells) : HeaderRole(HeaderCellText(row_cells[col])) = role }

\* C24: when several cells of the detected header row map to the same role
\* (two cells whose text contains 'date', say), the column recorded for the
\* role in the map is that of the leftmost such cell.
Cex_C24_LeftmostCellOfRoleRecorded ==
  pc = "found" =>
    \A role \in DOMAIN column_map \ { "header_row" } :
      \A col \in CellsOfRole(role) : column_map[role] <= col

\* what the code records: the column of the rightmost such cell
RightmostCellOfRoleRecorded ==
  pc = "found" =>
    \A role \in DOMAIN column_map \ { "header_row" } :
      /\ column_map[role] \in CellsOfRole(role)
      /\ \A col \in CellsOfRole(role) : col <= column_map[role]

-----------------------------------------------------------------------------
(* Claims about the sheet loop of process_excel_file (checked under        *)
(* SpecBook)                                                               *)

\* the header row of the sheet at position s, searched on that sheet alone
OwnHeaderRow(s) == find_data_headers(workbook[s].rows)["header_row"]

\* row r of the sheet at position s read with the column map of that sheet
\* alone, n transactions having been built before: whether it becomes a
\* transaction, and which
OwnReading(s, r, n) ==
  LET sheet_rows == workbook[s].rows
      map == find_data_headers(sheet_rows)
      by_amount == "amount_col" \in DOMAIN map
      date_cell == CellAt(sheet_rows, r, MapGet(map, "date_col", 1))
      description_cell == CellAt(sheet_rows, r, MapGet(map, "description_col", 2))
      resolved == ResolveAmount(by_amount,
                                CellAt(sheet_rows, r, MapGet(map, "debit_col", 4)),
                                CellAt(sheet_rows, r, MapGet(map, "credit_col", 5)),
                                IF by_amount THEN CellAt(sheet_rows, r, map["amount_col"]) ELSE NoneCell)
      text == IF Truthy(description_cell) THEN strip(PyStr(description_cell))
              ELSE SynthesizedDescription(n + 1)
      emitted == /\ Truthy(date_cell)
                 /\ ~ AnyIn(summary_date_keywords, upper(PyStr(date_cell)))
                 /\ ~ (Truthy(description_cell) /\ AnyIn(summary_description_keywords, upper(PyStr(description_cell))))
                 /\ ~ resolved.raised
                 /\ ~ IsZero(resolved.amount)
  IN  [ emitted |-> emitted,
        tx |-> IF emitted
                 THEN << MakeTransaction(detect_date_format(date_cell), resolved.amount, text,
                                         Xls_categorize_transaction(text)) >>
                 ELSE <<>> ]

\* the sheet loop has been through row r of the sheet at position s
Visited(s, r) == s < sheet_index \/ (s = sheet_index /\ r <= row)

\* the rows visited so far that lie below their sheet's own header row, on a
\* sheet other than 'Account Info', and become a transaction
RowsYielding ==
  UNION { { << s, r >> : r \in { k \in 1..Len(workbook[s].rows) :
                                     /\ k > OwnHeaderRow(s)
                                     /\ Visited(s, k)
                                     /\ OwnReading(s, k, 0).emitted } } :
            s \in { i \in 1..Len(workbook) : workbook[i].name # "Account Info" } }

\* C26: the transactions built from a workbook are in extraction order:
\* sheets in workbook order without 'Account Info', rows ascending from the
\* row after the sheet's own header row; each is what its row gives under
\* the column map detected from its sheet alone, and no row at or above a
\* sheet's header row yields a transaction.
Thm_C26_ExtractionOrder ==
  /\ Len(origins) = Len(all_transactions)
  /\ { << origins[i].sheet, origins[i].row >> : i \in 1..Len(origins) } = RowsYielding
  /\ \A i, j \in 1..Len(origins) :
       i < j => \/ origins[i].sheet < origins[j].sheet
                \/ origins[i].sheet = origins[j].sheet /\ origins[i].row < origins[j].row
  /\ \A i \in 1..Len(origins) :
       /\ workbook[origins[i].sheet].name # "Account Info"
       /\ origins[i].row > OwnHeaderRow(origins[i].sheet)
       /\ << all_transactions[i] >> = OwnReading(origins[i].sheet, origins[i].row, i - 1).tx

\* a workbook read to its end: 'Account Info' first, holding a row that
\* would read as a transaction, then two sheets with different header rows
\* and column maps, both of which gave transactions
Wit_C26_TwoLayoutsAfterAccountInfo ==
  /\ pc = "categorize"
  /\ Len(workbook) = 3
  /\ workbook[1].name = "Account Info"
  /\ OwnReading(1, 2, 0).emitted
  /\ find_data_headers(workbook[2].rows) # find_data_headers(workbook[3].rows)
  /\ OwnHeaderRow(2) # OwnHeaderRow(3)
  /\ \E i, j \in 1..Len(origins) : origins[i].sheet = 2 /\ origins[j].sheet = 3

-----------------------------------------------------------------------------
(* Claims about process_pdf_file and process_excel_file (checked under     *)
(* SpecCall)                                                               *)

\* (None, message) with a message that is not empty
IsFailurePair(pair) ==
  /\ pair.result = NoneCell
  /\ pair.error # NoneCell
  /\ pair.error.t = "str"
  /\ pair.error.s # <<>>

\* (result, None) with a result whose total_rows is the length of its transactions
IsSuccessPair(pair) ==
  /\ pair.error = NoneCell
  /\ pair.result # NoneCell
  /\ pair.result.t = "dict"
  /\ pair.result.total_rows = Len(pair.result.transactions)

\* every call returns one of the two pairs
PairWellFormed ==
  pc = "returned" => (IsFailurePair(returned) \/ IsSuccessPair(returned))

\* the statement-level fatal conditions
AnyPdfLibrary == environment.pdfplumber \/ environment.pymupdf \/ environment.pypdf2

NoBackend ==
  \/ document.kind = "pdf" /\ ~AnyPdfLibrary
  \/ document.kind = "xlsx" /\ ~environment.excel

WorkbookFailsToLoad == document.kind = "xlsx" /\ environment.excel /\ ~document.loads

\* no text and no tables came out of the PDF: text_content holds at most
\* the page marks of pages without text
NothingExtracted ==
  /\ document.kind = "pdf"
  /\ AnyPdfLibrary
  /\ \A i \in 1..Len(text_content) : text_content[i].text = "none"
  /\ tables_data = <<>>

\* the same when the text returned by extract_text_from_pdf is empty
EmptyTextReturned ==
  document.kind = "pdf" /\ AnyPdfLibrary /\ text_content = <<>> /\ tables_data = <<>>

\* with no backend, an empty text and no tables, or a workbook that fails
\* to load, the failure pair is returned and no request was made
FatalPathsMakeNoCalls ==
  (pc = "returned" /\ (NoBackend \/ EmptyTextReturned \/ WorkbookFailsToLoad))
    => IsFailurePair(returned) /\ api_calls = <<>>

\* C17: process_excel_file and process_pdf_file return either (result, None)
\* with total_rows equal to the length of transactions, or (None, message)
\* with a message that is not empty; when no extraction backend is
\* available, when no text and no tables were extracted from a PDF, or when
\* the workbook fails to load, they return (None, message) and no classifier
\* or extractor call was made.
Cex_C17_FatalConditionsReturnFailureWithoutCalls ==
  pc = "returned" =>
    /\ IsFailurePair(returned) \/ IsSuccessPair(returned)
    /\ (NoBackend \/ NothingExtracted \/ WorkbookFailsToLoad)
         => IsFailurePair(returned) /\ api_calls = <<>>

\* the pdfplumber document, opened in a with statement, is closed at every return
PlumberHandleClosed == pc = "returned" => "pdfplumber" \notin open_handles

\* C18: when a statement-processing call returns, on whatever path, every
\* workbook or PDF document handle opened during the call has been closed.
Cex_C18_HandlesClosedAtReturn ==
  pc = "returned" => open_handles = {}

\* process_pdf_file has returned after a request of the extractor
ExtractorAnswered ==
  /\ pc = "returned"
  /\ document.kind = "pdf"
  /\ api_calls # <<>>
  /\ api_calls[1].by = "extractor"
  /\ api_calls[1].response.kind = "text"

\* the extractor's text is not JSON
ResponseUnparseable == ~ api_calls[1].response.body.json

\* it is a JSON object without the key 'transactions'
ResponseLacksTransactions ==
  /\ api_calls[1].response.body.json
  /\ api_calls[1].response.body.value.t = "dict"
  /\ api_calls[1].response.body.value.transactions = Absent

\* it is a JSON object whose 'transactions' is the empty array
ResponseHasNoTransactions ==
  /\ api_calls[1].response.body.json
  /\ api_calls[1].response.body.value.t = "dict"
  /\ api_calls[1].response.body.value.transactions # Absent
  /\ api_calls[1].response.body.value.transactions.items = <<>>

\* the lines of the extracted text the line scanner makes transactions of
ScannerLines == { i \in 1..Len(text_content) : text_content[i].text = "line" }

\* a success result was returned, made of the transactions of the line
\* scanner (one dict built for each) and of its bank_info
ScannerResultReturned ==
  /\ IsSuccessPair(returned)
  /\ Len(all_transactions) = Cardinality(ScannerLines)
  /\ returned.result.bank_info = fallback_extraction(text_content).bank_info

\* C27: whenever the extractor's response cannot be parsed or yields an
\* empty result (no transactions key, or an empty transactions array), the
\* line scanner is run on the extracted text and its transactions, if any,
\* are returned as a success result rather than an error.
Cex_C27_ScannerRunsOnEmptyResult ==
  ( /\ ExtractorAnswered
    /\ ResponseUnparseable \/ ResponseLacksTransactions \/ ResponseHasNoTransactions
    /\ ScannerLines # {} ) => ScannerResultReturned

\* the same without the empty array: what the code does
ScannerRunsWithoutTransactionsKey ==
  ( /\ ExtractorAnswered
    /\ ResponseUnparseable \/ ResponseLacksTransactions
    /\ ScannerLines # {} ) => ScannerResultReturned

-----------------------------------------------------------------------------
(* Claims about ai_categorize_transactions (checked under SpecAI)          *)

\* C1: for every input list and every behaviour of the classifier, batch by
\* batch, the returned list is as long as the input and its i-th element is
\* the i-th input transaction, with the Date, Amount and Description it had:
\* no transaction is dropped, duplicated or reordered.
Cex_C1_SameTransactionsReturned ==
  pc = "returned" =>
    /\ Len(result) = Len(before)
    /\ \A i \in 1..Len(result) :
         /\ result[i] = i
         /\ Returned[i].Date = before[i].Date
         /\ Returned[i].Amount = before[i].Amount
         /\ Returned[i].Description = before[i].Description

\* the positions of the batch of a classifier call
BatchOf(call) == { call.start + k : k \in 1..(Min(call.start + batch_size, Len(before)) - call.start) }

\* C2: when a batch ended in its error path, every transaction of that
\* batch has, in the returned list, the Category and the Subcategory it had
\* before the batcher was called.
Cex_C2_ErrorPathKeepsCategories ==
  pc = "returned" =>
    \A c \in 1..Len(calls) :
      calls[c].ended = "error" =>
        \A j \in 1..Len(result) :
          result[j] \in BatchOf(calls[c]) =>
            /\ Returned[j].Category = before[result[j]].Category
            /\ Returned[j].Subcategory = before[result[j]].Subcategory

\* C3: every transaction of the list a processor returns has as its
\* Category one of the 13 labels of the closed category set, whatever the
\* classifier responded.
Cex_C3_CategoriesInClosedSet ==
  pc = "returned" =>
    \A j \in 1..Len(result) :
      Returned[j].Category \in { StrCell(label) : label \in CategorySet }

\* every classifier call made so far raised
EveryCallRaised == \A c \in 1..Len(calls) : calls[c].response = ClassifierRaises

\* C11: when no API key is configured, or when the classifier call raised
\* for every batch, the batcher returns a list equal to its input with
\* every Category and Subcategory as it was; with no key configured the
\* classifier is never called.
Thm_C11_NoClassifierKeepsInput ==
  (pc = "returned" /\ (~api_key \/ EveryCallRaised)) =>
    /\ result = Positions(Len(before))
    /\ all_transactions = before
    /\ ~api_key => calls = <<>>

\* the classifier raised for both batches of a list of more than batch_size
\* transactions, and the batcher has returned
Wit_C11_BothBatchesRaised ==
  pc = "returned" /\ api_key /\ Len(calls) = 2 /\ EveryCallRaised

\* the positions of the c-th batch of 50 of the input list
NthBatch(c) ==
  [ k \in 1..(Min(c * batch_size, Len(before)) - (c - 1) * batch_size) |-> (c - 1) * batch_size + k ]

\* what the c-th call alone makes of the input list
Alone(c) == BatchStep(processor, before, NthBatch(c), calls[c].response)

\* each batch of 50 is called for once, in order, and the transactions of
\* each batch are what that batch's response alone makes of them, however
\* the other batches ended
BatchesIsolated ==
  /\ \A c \in 1..Len(calls) :
       /\ calls[c].start = (c - 1) * batch_size
       /\ calls[c].ended = (IF Alone(c).raised THEN "error" ELSE "applied")
       /\ \A k \in 1..Len(NthBatch(c)) :
            all_transactions[NthBatch(c)[k]] = Alone(c).objects[NthBatch(c)[k]]
  /\ (pc = "returned" /\ api_key /\ before # <<>>) =>
       Len(calls) = (Len(before) + batch_size - 1) \div batch_size

\* C12: the classifier is called exactly once for each consecutive batch of
\* 50, in order, however earlier batches ended; a failed batch leaves the
\* classification of every other batch as it would be had it succeeded;
\* and the call of the batcher always comes to its return.
Thm_C12_FailureIsolatedPerBatch == [] BatchesIsolated /\ <>(pc = "returned")

\* the first batch failed, the second was applied, and the batcher returned
Wit_C12_FailedThenApplied ==
  /\ pc = "returned"
  /\ Len(calls) = 2
  /\ calls[1].ended = "error"
  /\ calls[2].ended = "applied"
  /\ all_transactions[Len(before)] # before[Len(before)]

\* C13: in every transaction of the final result Subcategory is derived
\* from the final Category: "Miscellaneous" when Category is "Other
\* Expenses", otherwise the first space-separated word of Category; for
\* rule-based categories and for categories the batcher wrote.
Cex_C13_SubcategoryDerivedFromCategory ==
  pc = "returned" =>
    \A j \in 1..Len(result) :
      /\ Returned[j].Category.t = "str"
      /\ Returned[j].Subcategory =
           IF Returned[j].Category.s = OtherExpenses THEN Miscellaneous
           ELSE FirstWord(Returned[j].Category.s)

\* C19: the request of every batch carries the descriptions of batch
\* positions 0..29 only, and the transactions at batch positions 30..49
\* keep the Category and Subcategory they had, whatever the classifier
\* returned.
Cex_C19_UndescribedPositionsKept ==
  \A c \in 1..Len(calls) :
    /\ Len(calls[c].descriptions) = Min(prompt_limit, Len(NthBatch(c)))
    /\ \A k \in 1..Len(calls[c].descriptions) :
         calls[c].descriptions[k] =
           NatStr(calls[c].start + k - 1) \o <<".", " ">> \o before[NthBatch(c)[k]].Description
    /\ \A k \in (prompt_limit + 1)..Len(NthBatch(c)) :
         /\ all_transactions[NthBatch(c)[k]].Category = before[NthBatch(c)[k]].Category
         /\ all_transactions[NthBatch(c)[k]].Subcategory = before[NthBatch(c)[k]].Subcategory

\* the response of the c-th call parsed to an array of strings
ParsedToStrings(c) ==
  /\ calls[c].response.kind = "text"
  /\ json_loads(processor, calls[c].response).ok
  /\ json_loads(processor, calls[c].response).value.t = "list"
  /\ \A i \in 1..Len(json_loads(processor, calls[c].response).value.items) :
       json_loads(processor, calls[c].response).value.items[i].t = "str"

\* C20: when a batch's response parses to an array R of category strings,
\* the transaction at batch position i has Category R[i] if i < len(R) and
\* the Category it had before if i >= len(R); entries of R beyond the batch
\* are ignored.
Thm_C20_ResponseAppliedByPosition ==
  \A c \in 1..Len(calls) :
    ParsedToStrings(c) =>
      LET R == json_loads(processor, calls[c].response).value.items
      IN  \A k \in 1..Len(NthBatch(c)) :
            all_transactions[NthBatch(c)[k]].Category =
              IF k <= Len(R) THEN R[k] ELSE before[NthBatch(c)[k]].Category

\* a batch of two got an array of one string, and a batch got an array
\* longer than itself
Wit_C20_ShorterAndLongerArrays ==
  /\ Len(calls) = 2
  /\ ParsedToStrings(1) /\ ParsedToStrings(2)
  /\ Len(json_loads(processor, calls[1].response).value.items) = Len(NthBatch(1)) - 1
  /\ Len(json_loads(processor, calls[2].response).value.items) = Len(NthBatch(2)) + 1
  /\ all_transactions[1].Category # before[1].Category

-----------------------------------------------------------------------------
(* Claims about bank_info (checked under SpecBank)                         *)

\* the digits of a text
Digits(s) == SelectSeq(s, IsDigit)

\* the cell read latest carried an account number: the value of an
\* 'account number' row of the info sheet, or a scanned cell
AccountNumberRead ==
  /\ LooksLikeAccountNumber(StrOrEmpty(last_cell.value))
  /\ \/ pc = "header scan"
     \/ /\ pc = "account info"
        /\ Contains(lower(StrOrEmpty(last_cell.field)), <<"a","c","c","o","u","n","t"," ","n","u","m","b","e","r">>)
        /\ ~Contains(lower(StrOrEmpty(last_cell.field)), <<"a","c","c","o","u","n","t"," ","h","o","l","d","e","r">>)

\* C7: account_number never holds the raw digits of an account number of 10
\* to 16 digits: such a number, found by the header scan or read from the
\* 'Account Info' sheet, is stored as its first four digits, "-****-" and
\* its last four digits.
Cex_C7_AccountNumberMasked ==
  /\ ~LooksLikeAccountNumber(bank_info.account_number)
  /\ AccountNumberRead =>
       bank_info.account_number = Masked(Digits(StrOrEmpty(last_cell.value)))


-----------------------------------------------------------------------------
(* The line scanner fallback_extraction on bounded statements              *)

\* the statements of the model: up to MaxLines lines, and one with more
\* lines that carry a transaction than fallback_limit
MaxLines == 2

StatementLines ==
  { <<"1","2","/","0","1","/","2","0","2","4"," ","C","A","R","R","E","F","O","U","R"," ","M","A","L","L"," ","1","5","0",".","0","0">>,
    <<"U","B","E","R"," ","T","R","I","P"," ","-","4","5",".","0","0"," ","1","2","/","0","1","/","2","0","2","4">>,
    <<"1","2","/","0","1","/","2","4"," ","S","T","A","R","B","U","C","K","S"," ","1","8",".","5","0">>,
    <<" "," ","2","0","2","4","-","0","1","-","5"," ","S","A","L","A","R","Y"," ","1",",","2","5","0",".","5","0"," ">>,
    <<"O","p","e","n","i","n","g"," ","B","a","l","a","n","c","e"," ","0","1","/","0","1","/","2","0","2","4"," ","5","0","0",".","0","0">>,
    <<"E","m","i","r","a","t","e","s"," ","N","B","D"," ","s","t","a","t","e","m","e","n","t">>,
    <<" "," ","P","a","g","e"," ","1"," "," "," "," ">>,
    <<"3","1","/","1","2","/","2","0","2","3"," ","9","9",".","9","5">>,
    <<"N","O","O","N"," ","1",".","2","5","0",".","5","0"," ","o","n"," ","5","/","1","3","/","2","4">>,
    <<"1","3","/","0","1","/","2","4"," ","L","U","L","U"," ","C","A","F","E">> }

LongStatement ==
  [ i \in 1..(fallback_limit + MaxLines) |->
      <<"1","2","/","0","1","/","2","4"," ","S","T","A","R","B","U","C","K","S"," ","1","8",".","5","0">> ]

Statements == UNION { [1..n -> StatementLines] : n \in 1..MaxLines } \cup { LongStatement }

ScanInit ==
  /\ pc = "lines"
  /\ lines \in Statements
  /\ lines_read = 0
  /\ last_line = NoLine
  /\ all_transactions = <<>>
  /\ now \in ClockReadings
  /\ amount_col = FALSE
  /\ rows_read = 0
  /\ last_row = NoRow
  /\ CatIdle
  /\ DateIdle
  /\ AiIdle
  /\ BankIdle
  /\ HeadersIdle
  /\ CallIdle
  /\ BookIdle

\* One pass of the line loop: the line is stripped and skipped or searched
\* for a date and an amount, and a transaction is appended if both are
\* found, the amount is a number and a description is left.
FallbackLine ==
  /\ pc = "lines"
  /\ lines_read < Len(lines)
  /\ LET r == ScanLine(lines[lines_read + 1], now)
     IN  /\ last_line' = r
         /\ all_transactions' =
              IF r.outcome = "appended" THEN Append(all_transactions, r.transaction)
              ELSE all_transactions
  /\ lines_read' = lines_read + 1
  /\ UNCHANGED << pc, lines, returned, exceptScan >>

\* After the last line the dict is returned, with the bank detected in the
\* head of the text and the first transactions found.
FallbackReturn ==
  /\ pc = "lines"
  /\ lines_read = Len(lines)
  /\ LET pdf_text == JoinLines(lines)
         bank_name == pdf_detect_bank(SubSeq(pdf_text, 1, Min(Len(pdf_text), bank_text_limit)))
     IN  returned' = FallbackResult(bank_name, all_transactions)
  /\ pc' = "returned"
  /\ UNCHANGED << lines, lines_read, last_line, all_transactions, exceptScan >>

ScanNext == FallbackLine \/ FallbackReturn

SpecScan == ScanInit /\ [][ScanNext]_vars

-----------------------------------------------------------------------------
(* Claims about the line scanner (checked under SpecScan)                  *)

\* the characters the amount was read from and the characters matched as
\* the date have no position of the line in common
AmountOutsideDate(scanned) ==
  \/ scanned.amount_match.to < scanned.date_match.from
  \/ scanned.amount_match.from > scanned.date_match.to

\* the line with the characters matched as the date blanked out
WithoutDate(scanned) ==
  [ i \in 1..Len(scanned.line) |->
      IF i \in scanned.date_match.from..scanned.date_match.to THEN " " ELSE scanned.line[i] ]

\* C28: for every line from which fallback_extraction produces a
\* transaction, the amount is the first decimal number of the line outside
\* the matched date (no digit of the date, such as its year, is taken as
\* the amount), and the scanner returns at most 100 transactions.
Cex_C28_AmountOutsideDate ==
  /\ last_line.outcome = "appended" =>
       /\ AmountOutsideDate(last_line)
       /\ AmountSearch(WithoutDate(last_line)).found
       /\ last_line.transaction.amount =
            PyFloat(RemoveChar(AmountSearch(WithoutDate(last_line)).text, ",")).v
  /\ pc = "returned" => Len(returned.transactions) <= fallback_limit

\* what holds of the amount: it is read from the leftmost match of the
\* amount expression in the whole line, and when the date ends in a
\* two-digit year and no other digits precede it, from outside the date
AmountIsLeftmostMatchOfLine ==
  last_line.outcome = "appended" =>
    /\ last_line.amount_match = AmountSearch(last_line.line)
    /\ (last_line.date_match.from = 1 /\ Len(DateFields(last_line.date_match.text).fields[3]) = 2)
         => AmountOutsideDate(last_line)

\* the part of C28 about the cap: the dict returned carries the first
\* fallback_limit transactions found, also when more were found
ScannerReturnsAtMostLimit ==
  pc = "returned" =>
    /\ Len(returned.transactions) = Min(Len(all_transactions), fallback_limit)
    /\ \A i \in 1..Len(returned.transactions) : returned.transactions[i] = all_transactions[i]

MoreFoundThanReturned ==
  pc = "returned" /\ Len(all_transactions) > fallback_limit /\ Len(returned.transactions) = fallback_limit

-----------------------------------------------------------------------------
(* Claims about the registry enrichment (checked under SpecBank)           *)

\* upload_file updates the bank_info of a statement whose 'Account Info'
\* sheet named a bank process_excel_file recognises
EnrichesRecognisedBank ==
  pc = "bank info ready" /\ pc' = "uploaded" /\ bank_info.bank_name # UnknownBank

\* the enrichment leaves the name, the holder and the number as they were
\* and sets nothing but currency, country and bank_code
EnrichmentChangesOnlyRegistryFields ==
  [][ (pc = "bank info ready" /\ pc' = "uploaded") =>
        /\ bank_info'.bank_name = bank_info.bank_name
        /\ bank_info'.account_holder = bank_info.account_holder
        /\ bank_info'.account_number = bank_info.account_number
        /\ DOMAIN bank_info' = DOMAIN bank_info \cup { "country", "bank_code" } ]_vars

\* C29: for every bank process_excel_file recognises from the 'Account
\* Info' sheet, the currency of the bank_info upload_file returns is the
\* currency process_excel_file assigned, and the enrichment changes no
\* field of bank_info other than currency, country and bank_code.
Cex_C29_EnrichmentKeepsCurrency ==
  [][ EnrichesRecognisedBank =>
        /\ bank_info'.currency = bank_info.currency
        /\ bank_info'.bank_name = bank_info.bank_name
        /\ bank_info'.account_holder = bank_info.account_holder
        /\ bank_info'.account_number = bank_info.account_number ]_vars

\* what holds of the currency: it is kept for the recognised banks the
\* registry knows under the name detect_bank gives them
unknown_bank_code == <<"U","N","K","N","O","W","N">>

RegistryKnownBankKeepsCurrency ==
  [][ (EnrichesRecognisedBank /\ bank_info'.bank_code # unknown_bank_code) =>
        bank_info'.currency = bank_info.currency ]_vars

\* a recognised UAE bank the registry does not know has been enriched
RecognisedBankUnknownToRegistry ==
  /\ pc = "uploaded"
  /\ bank_info.bank_name # UnknownBank
  /\ bank_info.bank_code = unknown_bank_code

=============================================================================
